---- MODULE Spec2Model ----
(***************************************************************************)
(* FluentAI front end: the Timer component (app.js), the lesson module     *)
(* (lessons.js) with the answer check inside window.handleAnswer, and the  *)
(* speaking module (speaking.js) with its requests in api.js, the API      *)
(* client's token handling and the level progress of the dashboard.        *)
(*                                                                         *)
(* Specifications:                                                         *)
(*   SpecTimer       one Timer object driven by arbitrary start / stop /   *)
(*                   reset calls and interval ticks, recording callbacks;  *)
(*   Spec            one page load of the lesson module: initLesson,       *)
(*                   learner clicks, ticks of the lesson timer, the        *)
(*                   delayed advance callbacks and the lesson submission;  *)
(*   SpecUnattended  Spec without learner clicks, timers running fairly;   *)
(*   SpecScoring     lesson results of the scoring engine shown by         *)
(*                   showResults and folded into the cached user;          *)
(*   SpecRoleplay    one roleplay conversation of the speaking module;     *)
(*   SpecFreeTalk    one free-talk conversation of the speaking module;    *)
(*   SpecSpeaking    one page load of the speaking module, running either  *)
(*                   a roleplay or a free talk;                            *)
(*   SpecRespondInput  one call of api.roleplayRespond followed from its   *)
(*                   arguments to the service;                             *)
(*   SpecLessonCache Spec with the engine answering each submission and    *)
(*                   showResults updating the cached user;                 *)
(*   SpecReinit      the lesson module with window.initLesson called again *)
(*                   while a lesson is loaded;                             *)
(*   SpecTwoModes    a roleplay and a free talk started on one page;       *)
(*   SpecStarts      SpecSpeaking with start requests that fail;           *)
(*   SpecAuth        the API client and the token and user it stores;      *)
(*   SpecDashboard   the level progress drawn by renderDashboard.          *)
(*                                                                         *)
(* The browser gives timers only a minimum delay, so interval ticks,       *)
(* timeouts and clicks are interleaved freely.                             *)
(***************************************************************************)
EXTENDS Integers, Sequences, FiniteSets, TLC

VARIABLES
    \* ---- browser timer table and Timer objects (app.js) ----
    timers,            \* heap of Timer objects, a sequence of records
    intervals,         \* live setInterval handles: records [id, owner]
    \* ---- recording callbacks of SpecTimer ----
    log,               \* events seen by the onTick / onComplete callbacks
    startCount,        \* number of start() calls made by the driver
    completeCount,     \* number of onComplete invocations
    lastCall,          \* last API call made by the driver
    everStopped,       \* the driver has called stop() or reset()
    \* ---- lesson module state (lessons.js, module level) ----
    currentLesson,
    currentQuestions,
    currentIndex,
    answers,
    currentLessonType,
    lessonTimer,       \* 0 (null) or the index of a Timer in the heap
    \* ---- event loop and page ----
    pendingAdvance,    \* setTimeout callbacks of handleAnswer not yet run
    screen,            \* what #lesson-container shows
    buttonsDisabled,   \* the option buttons on screen are disabled
    rendered,          \* index of the question on screen, -1 when none
    verdicts,          \* per handleAnswer call: question, answer, isCorrect
    inflight,          \* submit requests awaiting their response
    submitted,         \* every body handed to api.submitLesson so far
    \* ---- scoring and the cached user (lessons.js showResults) ----
    user,              \* the user object cached in localStorage
    snapshot,          \* the learner's progression snapshot on the server
    lastRecords,       \* answer records of the latest scored lesson
    lastResult,        \* the latest lesson result
    shownPercentage,   \* percentage drawn by showResults, -1 when none
    scoreEvents,       \* lessons scored so far
    \* ---- speaking module (speaking.js) and the roleplay service ----
    currentSession,    \* session id held by the page, 0 for null
    conversationHistory, \* messages pushed by addMessage
    speakScreen,       \* "scenarios", "conversation" or "complete"
    currentTurnEl,     \* number shown in #current-turn, 0 when blank
    pendingAi,         \* setTimeout callbacks that add an AI message
    rpRequests,        \* respond requests on their way to the service
    rpResponses,       \* responses on their way back to the page
    sends,             \* respond requests sent so far
    errorToasts,       \* toast.error calls made by the speaking module
    shownScores,       \* scores drawn on the result screen
    session,           \* the conversation session kept by the service
    \* ---- free talk (speaking.js) and the free-talk service ----
    freeTalkSession,   \* session id held by the page, 0 for null
    ftScreen,          \* "start", "talk" or "result"
    messageCountEl,    \* number shown in #message-count
    sessionAvgEl,      \* number shown in #session-avg, -1 for "--"
    ftRequests,        \* free-talk requests on their way to the service
    ftResponses,       \* responses on their way back to the page
    endsSent,          \* end requests sent so far
    resultsDrawn,      \* result screens drawn by endFreeTalk
    ftSession,         \* the free-talk session kept by the service
    \* ---- one respond call followed from its arguments to the service ----
    respondCall,       \* arguments, request body and outcome of the call
    \* ---- API client (api.js): localStorage next to the cached user ----
    token,             \* the stored access token, 0 when absent
    authCall,          \* the client call settled last: endpoint, status
    \* ---- dashboard (renderDashboard) ----
    dashboard          \* the level progress drawn last and its data

timerVars  == <<timers, intervals>>
probeVars  == <<log, startCount, completeCount, lastCall, everStopped>>
lessonVars == <<currentLesson, currentQuestions, currentIndex, answers,
                currentLessonType, lessonTimer, pendingAdvance, screen,
                buttonsDisabled, rendered, verdicts, inflight, submitted>>
scoreVars  == <<user, snapshot, lastRecords, lastResult, shownPercentage,
                scoreEvents>>
speakVars  == <<currentSession, conversationHistory, speakScreen,
                currentTurnEl, pendingAi, rpRequests, rpResponses, sends,
                errorToasts, shownScores, session>>
ftVars     == <<freeTalkSession, ftScreen, messageCountEl, sessionAvgEl,
                ftRequests, ftResponses, endsSent, resultsDrawn, ftSession>>
callVars   == <<respondCall>>
authVars   == <<token, authCall>>
dashVars   == <<dashboard>>
vars       == <<timers, intervals, log, startCount, completeCount, lastCall,
                everStopped, currentLesson, currentQuestions, currentIndex,
                answers, currentLessonType, lessonTimer, pendingAdvance,
                screen, buttonsDisabled, rendered, verdicts, inflight,
                submitted, user, snapshot, lastRecords, lastResult,
                shownPercentage, scoreEvents, currentSession,
                conversationHistory, speakScreen, currentTurnEl, pendingAi,
                rpRequests, rpResponses, sends, errorToasts, shownScores,
                session, freeTalkSession, ftScreen, messageCountEl,
                sessionAvgEl, ftRequests, ftResponses, endsSent,
                resultsDrawn, ftSession, respondCall, token, authCall,
                dashboard>>

(***************************************************************************)
(* Bounds                                                                  *)
(***************************************************************************)
MaxDuration  == 3     \* durations the Timer driver tries: 1..MaxDuration
MaxStarts    == 2     \* start() calls the Timer driver makes
MaxQuestions == 3     \* questions in a lesson
MaxLog       == MaxDuration + 3   \* callback events recorded by the driver

(***************************************************************************)
(* JavaScript values and text.  Text is a sequence of one-character        *)
(* strings.  A value is [t, s]: its type tag and its text payload.         *)
(***************************************************************************)
NullV     == [t |-> "null", s |-> <<>>]
StrV(x)   == [t |-> "string", s |-> x]
NumV(x)   == [t |-> "number", s |-> x]
BoolV(x)  == [t |-> "boolean", s |-> x]

TxtNull  == <<"n", "u", "l", "l">>
TxtTrue  == <<"t", "r", "u", "e">>
TxtFalse == <<"f", "a", "l", "s", "e">>

Digits     == {"0", "1", "2"}
WhiteSpace == {" "}

LowerChar(c) ==
    CASE c = "A" -> "a"
      [] c = "B" -> "b"
      [] c = "N" -> "n"
      [] c = "U" -> "u"
      [] c = "L" -> "l"
      [] OTHER   -> c

\* String.prototype.toLowerCase
ToLowerCase(x) == [i \in 1..Len(x) |-> LowerChar(x[i])]

\* String.prototype.trim
RECURSIVE TrimStart(_)
TrimStart(x) ==
    IF x # <<>> /\ Head(x) \in WhiteSpace THEN TrimStart(Tail(x)) ELSE x

RECURSIVE TrimEnd(_)
TrimEnd(x) ==
    IF x # <<>> /\ x[Len(x)] \in WhiteSpace
    THEN TrimEnd(SubSeq(x, 1, Len(x) - 1))
    ELSE x

Trim(x) == TrimEnd(TrimStart(x))

\* String(value)
String(v) == IF v.t = "null" THEN TxtNull ELSE v.s

\* JSON number literals over Digits: no sign, fraction or exponent; no
\* leading zero.  The text of the parsed number is the literal itself.
IsJsonNumber(x) ==
    /\ x # <<>>
    /\ \A i \in 1..Len(x) : x[i] \in Digits
    /\ (Len(x) > 1 => x[1] # "0")

\* JSON string literals without escapes.
IsJsonString(x) ==
    /\ Len(x) >= 2
    /\ x[1] = "\""
    /\ x[Len(x)] = "\""
    /\ \A i \in 2..(Len(x) - 1) : x[i] # "\""

\* JSON.parse over the scalar grammar (texts hold no brackets or braces).
\* ok = FALSE stands for the SyntaxError the caller catches.
JsonParse(x) ==
    LET body == Trim(x) IN
    CASE body = TxtNull       -> [ok |-> TRUE, v |-> NullV]
      [] body = TxtTrue       -> [ok |-> TRUE, v |-> BoolV(TxtTrue)]
      [] body = TxtFalse      -> [ok |-> TRUE, v |-> BoolV(TxtFalse)]
      [] IsJsonNumber(body)   -> [ok |-> TRUE, v |-> NumV(body)]
      [] IsJsonString(body)   -> [ok |-> TRUE,
                                  v |-> StrV(SubSeq(body, 2, Len(body) - 1))]
      [] OTHER                -> [ok |-> FALSE, v |-> NullV]

\* handleAnswer: decode the stored correct answer, fall back to the raw value
DecodeCorrect(correct) ==
    IF correct.t = "string"
    THEN LET p == JsonParse(correct.s) IN IF p.ok THEN p.v ELSE correct
    ELSE correct

\* a comparison that forgets toLowerCase
IsCorrectCaseSensitive(answer, correct) ==
    Trim(String(answer)) = Trim(String(DecodeCorrect(correct)))

\* handleAnswer: const isCorrect = String(answer).toLowerCase().trim() === ...
IsCorrect(answer, correct) ==
    Trim(ToLowerCase(String(answer))) =
        Trim(ToLowerCase(String(DecodeCorrect(correct))))

(***************************************************************************)
(* Timer (app.js).  A Timer object is a record in the heap `timers`;       *)
(* interval = 0 stands for null.  `intervals` is the browser's table of    *)
(* live setInterval handles, each owned by the Timer whose start() made it.*)
(***************************************************************************)
\* constructor(element, duration, onTick, onComplete)
NewTimer(duration, onTick, onComplete) ==
    [duration |-> duration, remaining |-> duration, interval |-> 0,
     onTick |-> onTick, onComplete |-> onComplete]

\* setInterval returns a handle that no live interval carries.  A cleared
\* handle is never kept by a Timer (stop nulls it), so the least free
\* number stands for the browser's fresh one.
FreshHandle(ivs) ==
    CHOOSE n \in 1..(Cardinality(ivs) + 1) :
        /\ \A i \in ivs : i.id # n
        /\ \A m \in 1..(n - 1) : \E i \in ivs : i.id = m

\* start(): this.interval = setInterval(...)
TimerStart(ts, ivs, k) ==
    LET h == FreshHandle(ivs) IN
    [timers    |-> [ts EXCEPT ![k].interval = h],
     intervals |-> ivs \cup {[id |-> h, owner |-> k]}]

\* stop(): if (this.interval) { clearInterval(this.interval); ... = null }
TimerStop(ts, ivs, k) ==
    IF ts[k].interval # 0
    THEN [timers    |-> [ts EXCEPT ![k].interval = 0],
          intervals |-> {i \in ivs : i.id # ts[k].interval}]
    ELSE [timers |-> ts, intervals |-> ivs]

\* reset(): this.stop(); this.remaining = this.duration
TimerReset(ts, ivs, k) ==
    LET s == TimerStop(ts, ivs, k) IN
    [timers    |-> [s.timers EXCEPT ![k].remaining = ts[k].duration],
     intervals |-> s.intervals]

\* an off-by-one completion test (one tick too late)
ExpiredLate(remaining) == remaining < 0

\* the interval callback's completion test: if (this.remaining <= 0)
Expired(remaining) == remaining <= 0

\* The interval callback of start(), run for live handle iv:
\* remaining--, onTick(remaining), and on expiry stop() before onComplete().
\* `fired` tells the caller to run onComplete; `tickSeen` is the timer as
\* onTick saw it.
TimerTick(ts, ivs, iv) ==
    LET k       == iv.owner
        ticked  == [ts EXCEPT ![k].remaining = ts[k].remaining - 1]
        expired == Expired(ticked[k].remaining)
        s       == IF expired THEN TimerStop(ticked, ivs, k)
                   ELSE [timers |-> ticked, intervals |-> ivs]
    IN  [timers |-> s.timers, intervals |-> s.intervals,
         fired |-> expired, tickSeen |-> ticked[k]]

(***************************************************************************)
(* Lesson module state after the module has loaded (lessons.js 517-525)    *)
(***************************************************************************)
NoLesson == [loaded |-> FALSE, lesson_id |-> 0, time_per_question |-> 0]

LessonIdle ==
    /\ currentLesson = NoLesson
    /\ currentQuestions = <<>>
    /\ currentIndex = 0
    /\ answers = <<>>
    /\ currentLessonType = "none"
    /\ lessonTimer = 0
    /\ pendingAdvance = 0
    /\ screen = "blank"
    /\ buttonsDisabled = FALSE
    /\ rendered = -1
    /\ verdicts = <<>>
    /\ inflight = <<>>
    /\ submitted = <<>>

ProbeIdle ==
    /\ log = <<>>
    /\ startCount = 0
    /\ completeCount = 0
    /\ lastCall = "new"
    /\ everStopped = FALSE

(***************************************************************************)
(* The cached user and the scoring state before any lesson is scored       *)
(***************************************************************************)
NoUser ==
    [present |-> FALSE, xp_total |-> 0, current_streak |-> 0,
     cefr_level |-> "unset"]

NoResult ==
    [score |-> 0, xp_earned |-> 0, correct_count |-> 0,
     total_questions |-> 0, new_streak |-> 0, level_up |-> FALSE,
     new_level |-> "unset", mistakes |-> <<>>]

ScoreIdle ==
    /\ user = NoUser
    /\ snapshot = [xp_total |-> 0, current_streak |-> 0,
                   cefr_level |-> "unset"]
    /\ lastRecords = <<>>
    /\ lastResult = NoResult
    /\ shownPercentage = -1
    /\ scoreEvents = 0


(***************************************************************************)
(* Speaking module state after the module has loaded (speaking.js 8-10),   *)
(* with the scenario list on screen and no session at the service          *)
(***************************************************************************)
NoSession == [state |-> "none", turn |-> 0, max_turns |-> 0,
              transcript |-> <<>>, provider |-> 0]

NoScores == [avg |-> -1, fluency |-> -1, grammar |-> -1, vocabulary |-> -1]

SpeakIdle ==
    /\ currentSession = 0
    /\ conversationHistory = <<>>
    /\ speakScreen = "scenarios"
    /\ currentTurnEl = 0
    /\ pendingAi = <<>>
    /\ rpRequests = <<>>
    /\ rpResponses = {}
    /\ sends = 0
    /\ errorToasts = 0
    /\ shownScores = NoScores
    /\ session = NoSession

(***************************************************************************)
(* Free talk before it is started (speaking.js 310)                        *)
(***************************************************************************)
NoFreeTalk == [state |-> "none", turn |-> 0, transcript |-> <<>>,
               provider |-> 0, awards |-> 0]

FreeTalkIdle ==
    /\ freeTalkSession = 0
    /\ ftScreen = "start"
    /\ messageCountEl = 0
    /\ sessionAvgEl = -1
    /\ ftRequests = <<>>
    /\ ftResponses = {}
    /\ endsSent = 0
    /\ resultsDrawn = 0
    /\ ftSession = NoFreeTalk

\* no respond call followed yet
NoCall ==
    [via |-> "none", text |-> NullV, audio |-> NullV,
     body |-> [user_text |-> FALSE, audio |-> FALSE], sent |-> FALSE,
     error |-> "none", providerCalled |-> FALSE, before |-> <<>>]

\* no client call settled yet
NoAuthCall == [endpoint |-> "none", status |-> "none", account |-> 0]

\* no dashboard drawn yet
NoDashboard ==
    [drawn |-> FALSE, cefr_level |-> "unset", xp_total |-> 0,
     percent |-> [num |-> 0, den |-> 1], xp_needed |-> 0, next |-> "none"]

DashIdle == dashboard = NoDashboard

\* nobody is signed in
AuthIdle ==
    /\ token = 0
    /\ authCall = NoAuthCall

(***************************************************************************)
(* SpecTimer: one Timer whose onTick and onComplete record what they see,  *)
(* driven by any sequence of start, stop and reset calls and ticks.        *)
(***************************************************************************)
TickEvent(t) ==
    [e |-> "tick", remaining |-> t.remaining, running |-> t.interval # 0]

CompleteEvent(t) ==
    [e |-> "complete", remaining |-> t.remaining, running |-> t.interval # 0]

InitTimer ==
    /\ \E d \in 1..MaxDuration : timers = <<NewTimer(d, "probe", "probe")>>
    /\ intervals = {}
    /\ ProbeIdle
    /\ LessonIdle
    /\ ScoreIdle
    /\ SpeakIdle
    /\ FreeTalkIdle
    /\ respondCall = NoCall
    /\ AuthIdle
    /\ DashIdle

DriverStart ==
    /\ startCount < MaxStarts
    /\ LET r == TimerStart(timers, intervals, 1) IN
         /\ timers' = r.timers
         /\ intervals' = r.intervals
    /\ startCount' = startCount + 1
    /\ lastCall' = "start"
    /\ UNCHANGED <<log, completeCount, everStopped>>
    /\ UNCHANGED lessonVars
    /\ UNCHANGED scoreVars
    /\ UNCHANGED speakVars
    /\ UNCHANGED ftVars
    /\ UNCHANGED callVars
    /\ UNCHANGED authVars
    /\ UNCHANGED dashVars

DriverStop ==
    /\ LET r == TimerStop(timers, intervals, 1) IN
         /\ timers' = r.timers
         /\ intervals' = r.intervals
    /\ lastCall' = "stop"
    /\ everStopped' = TRUE
    /\ UNCHANGED <<log, startCount, completeCount>>
    /\ UNCHANGED lessonVars
    /\ UNCHANGED scoreVars
    /\ UNCHANGED speakVars
    /\ UNCHANGED ftVars
    /\ UNCHANGED callVars
    /\ UNCHANGED authVars
    /\ UNCHANGED dashVars

DriverReset ==
    /\ LET r == TimerReset(timers, intervals, 1) IN
         /\ timers' = r.timers
         /\ intervals' = r.intervals
    /\ lastCall' = "reset"
    /\ everStopped' = TRUE
    /\ UNCHANGED <<log, startCount, completeCount>>
    /\ UNCHANGED lessonVars
    /\ UNCHANGED scoreVars
    /\ UNCHANGED speakVars
    /\ UNCHANGED ftVars
    /\ UNCHANGED callVars
    /\ UNCHANGED authVars
    /\ UNCHANGED dashVars

\* one firing of a live interval of the probe Timer
ProbeTick ==
    /\ Len(log) + 2 <= MaxLog
    /\ \E iv \in intervals :
         LET r == TimerTick(timers, intervals, iv) IN
           /\ timers' = r.timers
           /\ intervals' = r.intervals
           /\ log' = IF r.fired
                     THEN log \o <<TickEvent(r.tickSeen),
                                   CompleteEvent(r.timers[iv.owner])>>
                     ELSE Append(log, TickEvent(r.tickSeen))
           /\ completeCount' = IF r.fired THEN completeCount + 1
                               ELSE completeCount
    /\ UNCHANGED <<startCount, lastCall, everStopped>>
    /\ UNCHANGED lessonVars
    /\ UNCHANGED scoreVars
    /\ UNCHANGED speakVars
    /\ UNCHANGED ftVars
    /\ UNCHANGED callVars
    /\ UNCHANGED authVars
    /\ UNCHANGED dashVars

NextTimer == DriverStart \/ DriverStop \/ DriverReset \/ ProbeTick

SpecTimer == InitTimer /\ [][NextTimer]_vars

(***************************************************************************)
(* Timer properties (SpecTimer)                                            *)
(***************************************************************************)
ProbeTimer == timers[1]

\* C6: for any sequence of start, stop, reset calls and ticks, the
\* completion callback has fired at most once for each start call made.
\* Refuted: a second start() overwrites this.interval, the first interval
\* stays live, and it completes again on every later tick.
C6_CompleteAtMostOncePerStart == completeCount <= startCount

\* what the callbacks of a Timer of duration d record when it is started
\* once and left alone: onTick(d-1) .. onTick(0), each seen while the
\* interval is still set, then onComplete seen after stop() nulled it
ExpectedLog(d) ==
    [i \in 1..(d + 1) |->
        IF i <= d
        THEN [e |-> "tick", remaining |-> d - i, running |-> TRUE]
        ELSE [e |-> "complete", remaining |-> 0, running |-> FALSE]]

StartedOnceUntouched == startCount = 1 /\ ~everStopped

\* C7: a Timer of duration d started once and never stopped ticks exactly
\* d times, calling onTick with d-1 down to 0; the tick that reaches zero
\* stops the timer and then calls onComplete, once, after onTick(0); no
\* tick follows, and until then the interval stays live.
C7_CountdownExact ==
    StartedOnceUntouched =>
        LET d == ProbeTimer.duration IN
        /\ Len(log) <= d + 1
        /\ Len(log) # d
        /\ log = SubSeq(ExpectedLog(d), 1, Len(log))
        /\ completeCount = (IF Len(log) = d + 1 THEN 1 ELSE 0)
        /\ ProbeTimer.remaining = (IF Len(log) = d + 1 THEN 0 ELSE d - Len(log))
        /\ (Len(log) = d + 1 => ProbeTimer.interval = 0 /\ intervals = {})
        /\ (Len(log) < d =>
               /\ ProbeTimer.interval # 0
               /\ intervals = {[id |-> ProbeTimer.interval, owner |-> 1]})

\* C7 witness: a Timer of the longest duration has counted down to zero and
\* completed
C7_Witness ==
    /\ StartedOnceUntouched
    /\ ProbeTimer.duration = MaxDuration
    /\ log = ExpectedLog(MaxDuration)
    /\ completeCount = 1

\* C8: once stop() was the last call, no tick and no completion callback
\* occurs and the timer's state stays as stop left it (a further stop
\* included) until start is called; stop itself leaves remaining unchanged.
\* Refuted: after start(); start() the first interval survives stop().
C8_StopCancelsAndIsIdempotent ==
    [][lastCall' = "stop" =>
          /\ log' = log
          /\ completeCount' = completeCount
          /\ timers'[1].interval = 0
          /\ timers'[1].remaining = timers[1].remaining]_vars

\* C9: reset() leaves the timer not running with remaining = duration, and
\* as long as reset was the last call no tick and no completion occurs.
\* Refuted: after start(); start() the first interval survives reset().
C9_ResetRestoresAndHalts ==
    [][lastCall' = "reset" =>
          /\ log' = log
          /\ completeCount' = completeCount
          /\ timers'[1].interval = 0
          /\ timers'[1].remaining = timers'[1].duration]_vars

(***************************************************************************)
(* Lessons the backend serves.  Each question keeps the fields the lesson  *)
(* module reads: id, question, correct_answer, options.                    *)
(***************************************************************************)
Catalog ==
    << [id |-> 1, question |-> <<"1">>,
        correct_answer |-> StrV(<<"a">>),
        options |-> << <<"a">>, <<"b">> >>],
       [id |-> 2, question |-> <<"2">>,
        correct_answer |-> StrV(<<"\"", "B", "\"">>),
        options |-> << <<"a">>, <<"b">> >>],
       [id |-> 3, question |-> <<"0">>,
        correct_answer |-> NullV,
        options |-> << <<"a">>, <<"b">> >>],
       [id |-> 4, question |-> <<"1">>,
        correct_answer |-> StrV(<<" ", "1">>),
        options |-> << <<"1">>, <<"2">> >>],
       [id |-> 5, question |-> <<"2">>,
        correct_answer |-> StrV(<<"\"", "a">>),
        options |-> << <<"a">>, <<"b">> >>] >>

\* the questions of Catalog at the positions in `pos`, in catalog order
RECURSIVE Pick(_, _)
Pick(pos, from) ==
    IF from > Len(Catalog) THEN <<>>
    ELSE IF from \in pos THEN <<Catalog[from]>> \o Pick(pos, from + 1)
    ELSE Pick(pos, from + 1)

QuestionSets ==
    {Pick(pos, 1) : pos \in {p \in SUBSET (1..Len(Catalog)) :
                                 Cardinality(p) <= MaxQuestions}}

LessonTypes == {"daily", "grammar-sprint", "word-sprint", "pack-lesson"}

\* time_per_question of the response; 0 stands for an absent field
TimesPerQuestion == {0, 1, 2}

DefaultTimePerQuestion == 20

IsSprint(type) == type = "grammar-sprint" \/ type = "word-sprint"

(***************************************************************************)
(* Lesson module (lessons.js)                                              *)
(***************************************************************************)
Init ==
    /\ timers = <<>>
    /\ intervals = {}
    /\ ProbeIdle
    /\ LessonIdle
    /\ ScoreIdle
    /\ SpeakIdle
    /\ FreeTalkIdle
    /\ respondCall = NoCall
    /\ AuthIdle
    /\ DashIdle

\* setupTimer(duration, true): lessonTimer = new Timer(...); start()
SetupTimer(ts, ivs, duration) ==
    LET k == Len(ts) + 1 IN
    TimerStart(Append(ts, NewTimer(duration, "none", "perQuestion")), ivs, k)

\* a submitLesson that leaves the timer alone
SubmitStopsTimerNever(lt) == FALSE

\* submitLesson: if (lessonTimer) { lessonTimer.stop(); }
SubmitStopsTimer(lt) == lt # 0

\* an empty check that lets every lesson through
IsEmptyLessonNever(questions) == FALSE

\* if (currentQuestions.length === 0)
IsEmptyLesson(questions) == Len(questions) = 0

\* initLesson(type) once its request has returned `questions` and
\* `tpq`, drawn from `sets` and `times`, as lesson number `id` of the
\* page; hasTimerEl tells whether the page has a #timer element.  A
\* request that fails shows a toast and leaves the module state as it was.
LoadLesson(id, sets, times) ==
    /\ \E type \in LessonTypes, questions \in sets,
          tpq \in times, hasTimerEl \in BOOLEAN :
         /\ currentLesson' = [loaded |-> TRUE, lesson_id |-> id,
                              time_per_question |-> tpq]
         /\ currentQuestions' = questions
         /\ currentIndex' = 0
         /\ answers' = <<>>
         /\ currentLessonType' = type
         /\ IF IsEmptyLesson(questions)
            THEN /\ screen' = "empty"
                 /\ UNCHANGED <<timers, intervals, lessonTimer, rendered,
                                buttonsDisabled, inflight, submitted>>
            ELSE LET timed    == IsSprint(type) /\ hasTimerEl
                     duration == IF tpq # 0 THEN tpq
                                 ELSE DefaultTimePerQuestion
                     r1       == IF timed
                                 THEN SetupTimer(timers, intervals, duration)
                                 ELSE [timers |-> timers,
                                       intervals |-> intervals]
                     lt       == IF timed THEN Len(r1.timers) ELSE lessonTimer
                     \* renderCurrentQuestion() with currentIndex = 0
                     finished == 0 >= Len(questions)
                     r2       == IF finished /\ SubmitStopsTimer(lt)
                                 THEN TimerStop(r1.timers, r1.intervals, lt)
                                 ELSE r1
                 IN  /\ timers' = r2.timers
                     /\ intervals' = r2.intervals
                     /\ lessonTimer' = lt
                     /\ IF finished
                        THEN /\ submitted' = Append(submitted, <<>>)
                             /\ inflight' = Append(inflight, <<>>)
                             /\ UNCHANGED <<screen, rendered,
                                            buttonsDisabled>>
                        ELSE /\ screen' = "question"
                             /\ rendered' = 0
                             /\ buttonsDisabled' = FALSE
                             /\ UNCHANGED <<inflight, submitted>>
    /\ UNCHANGED <<pendingAdvance, verdicts>>
    /\ UNCHANGED probeVars
    /\ UNCHANGED scoreVars
    /\ UNCHANGED speakVars
    /\ UNCHANGED ftVars
    /\ UNCHANGED callVars
    /\ UNCHANGED authVars
    /\ UNCHANGED dashVars

\* the initLesson call the page makes when it has loaded (a retry reloads
\* the page)
InitLesson ==
    /\ ~currentLesson.loaded
    /\ LoadLesson(1, QuestionSets, TimesPerQuestion)

\* if (!currentQuestions[currentIndex]) return;
HasCurrentQuestion == currentIndex + 1 <= Len(currentQuestions)

\* the record of answers.push; time_taken_ms (a wall-clock reading) is left
\* out
AnswerRecord(q, answer) ==
    [question_id |-> q.id, user_answer |-> answer,
     question_text |-> q.question, correct_answer |-> q.correct_answer,
     options |-> q.options]

\* a handler that keeps only the latest record of a question
PushAnswerOverwrite(recs, rec) ==
    IF recs # <<>> /\ recs[Len(recs)].question_id = rec.question_id
    THEN Append(SubSeq(recs, 1, Len(recs) - 1), rec)
    ELSE Append(recs, rec)

\* answers.push({...})
PushAnswer(recs, rec) == Append(recs, rec)

\* window.handleAnswer(answer): its effect on the lesson state.  The Timer
\* is not touched here; the advance is left to a 1000 ms timeout.
HandleAnswer(answer) ==
    IF ~HasCurrentQuestion
    THEN UNCHANGED <<answers, verdicts, buttonsDisabled, pendingAdvance>>
    ELSE LET q == currentQuestions[currentIndex + 1] IN
         /\ answers' = PushAnswer(answers, AnswerRecord(q, answer))
         /\ verdicts' = Append(verdicts,
                [question_id |-> q.id, user_answer |-> answer,
                 isCorrect |-> IsCorrect(answer, q.correct_answer)])
         /\ buttonsDisabled' = TRUE
         /\ pendingAdvance' = pendingAdvance + 1

\* the learner clicks an enabled option button of the question on screen
LearnerAnswer ==
    /\ screen = "question"
    /\ ~buttonsDisabled
    /\ \E i \in 1..Len(currentQuestions[rendered + 1].options) :
         HandleAnswer(StrV(currentQuestions[rendered + 1].options[i]))
    /\ UNCHANGED <<currentLesson, currentQuestions, currentIndex,
                   currentLessonType, lessonTimer, screen, rendered,
                   inflight, submitted>>
    /\ UNCHANGED timerVars
    /\ UNCHANGED probeVars
    /\ UNCHANGED scoreVars
    /\ UNCHANGED speakVars
    /\ UNCHANGED ftVars
    /\ UNCHANGED callVars
    /\ UNCHANGED authVars
    /\ UNCHANGED dashVars

\* one firing of a live interval of a lesson Timer; on expiry the
\* per-question onComplete runs handleAnswer(null).  (setupTimer is only
\* ever called with perQuestion = true.)
LessonTick ==
    /\ \E iv \in intervals :
         LET r == TimerTick(timers, intervals, iv) IN
           /\ timers' = r.timers
           /\ intervals' = r.intervals
           /\ IF r.fired
              THEN HandleAnswer(NullV)
              ELSE UNCHANGED <<answers, verdicts, buttonsDisabled,
                               pendingAdvance>>
    /\ UNCHANGED <<currentLesson, currentQuestions, currentIndex,
                   currentLessonType, lessonTimer, screen, rendered,
                   inflight, submitted>>
    /\ UNCHANGED probeVars
    /\ UNCHANGED scoreVars
    /\ UNCHANGED speakVars
    /\ UNCHANGED ftVars
    /\ UNCHANGED callVars
    /\ UNCHANGED authVars
    /\ UNCHANGED dashVars

\* a cursor that moves on only while a question is left
NextIndexClamped(i) == IF i + 1 < Len(currentQuestions) THEN i + 1 ELSE i

\* currentIndex++
NextIndex(i) == i + 1

\* a restart test that forgets the word sprint
RestartsTimerGrammarOnly ==
    lessonTimer # 0 /\ currentLessonType = "grammar-sprint"

\* if (lessonTimer && (currentLessonType === 'grammar-sprint' || ... ))
RestartsTimer == lessonTimer # 0 /\ IsSprint(currentLessonType)

\* The timeout callback of handleAnswer: currentIndex++, restart the
\* sprint timer, renderCurrentQuestion(), which calls submitLesson() up to
\* its await when the cursor is past the last question.
Advance ==
    /\ pendingAdvance > 0
    /\ pendingAdvance' = pendingAdvance - 1
    /\ currentIndex' = NextIndex(currentIndex)
    /\ LET r1       == IF RestartsTimer
                       THEN LET z == TimerReset(timers, intervals, lessonTimer)
                            IN  TimerStart(z.timers, z.intervals, lessonTimer)
                       ELSE [timers |-> timers, intervals |-> intervals]
           finished == currentIndex' >= Len(currentQuestions)
           r2       == IF finished /\ SubmitStopsTimer(lessonTimer)
                       THEN TimerStop(r1.timers, r1.intervals, lessonTimer)
                       ELSE r1
       IN  /\ timers' = r2.timers
           /\ intervals' = r2.intervals
           /\ IF finished
              THEN /\ submitted' = Append(submitted, answers)
                   /\ inflight' = Append(inflight, answers)
                   /\ UNCHANGED <<screen, rendered, buttonsDisabled>>
              ELSE /\ screen' = "question"
                   /\ rendered' = currentIndex'
                   /\ buttonsDisabled' = FALSE
                   /\ UNCHANGED <<submitted, inflight>>
    /\ UNCHANGED <<currentLesson, currentQuestions, answers,
                   currentLessonType, lessonTimer, verdicts>>
    /\ UNCHANGED probeVars
    /\ UNCHANGED scoreVars
    /\ UNCHANGED speakVars
    /\ UNCHANGED ftVars
    /\ UNCHANGED callVars
    /\ UNCHANGED authVars
    /\ UNCHANGED dashVars

RemoveAt(q, i) == SubSeq(q, 1, i - 1) \o SubSeq(q, i + 1, Len(q))

\* submitLesson after its await: the request succeeded, showResults(result)
SubmitOk ==
    /\ \E i \in 1..Len(inflight) : inflight' = RemoveAt(inflight, i)
    /\ screen' = "results"
    /\ rendered' = -1
    /\ UNCHANGED <<currentLesson, currentQuestions, currentIndex, answers,
                   currentLessonType, lessonTimer, pendingAdvance,
                   buttonsDisabled, verdicts, submitted>>
    /\ UNCHANGED timerVars
    /\ UNCHANGED probeVars
    /\ UNCHANGED scoreVars
    /\ UNCHANGED speakVars
    /\ UNCHANGED ftVars
    /\ UNCHANGED callVars
    /\ UNCHANGED authVars
    /\ UNCHANGED dashVars

\* submitLesson after its await: the request failed, only a toast is shown
SubmitFail ==
    /\ \E i \in 1..Len(inflight) : inflight' = RemoveAt(inflight, i)
    /\ UNCHANGED <<currentLesson, currentQuestions, currentIndex, answers,
                   currentLessonType, lessonTimer, pendingAdvance, screen,
                   buttonsDisabled, rendered, verdicts, submitted>>
    /\ UNCHANGED timerVars
    /\ UNCHANGED probeVars
    /\ UNCHANGED scoreVars
    /\ UNCHANGED speakVars
    /\ UNCHANGED ftVars
    /\ UNCHANGED callVars
    /\ UNCHANGED authVars
    /\ UNCHANGED dashVars

Next ==
    \/ InitLesson
    \/ LearnerAnswer
    \/ LessonTick
    \/ Advance
    \/ SubmitOk
    \/ SubmitFail

Spec == Init /\ [][Next]_vars

(***************************************************************************)
(* SpecUnattended: the lesson module with a learner who never clicks.      *)
(* The event loop runs every due interval and timeout callback, hence the  *)
(* weak fairness of LessonTick and Advance.                                *)
(***************************************************************************)
NextUnattended ==
    \/ InitLesson
    \/ LessonTick
    \/ Advance
    \/ SubmitOk
    \/ SubmitFail

SpecUnattended ==
    /\ Init
    /\ [][NextUnattended]_vars
    /\ WF_vars(LessonTick)
    /\ WF_vars(Advance)

(***************************************************************************)
(* Lesson session properties (Spec)                                        *)
(***************************************************************************)
\* C1: a lesson session is submitted at most once, whatever the
\* interleaving of answers, expiries and delayed advances.
\* Refuted: an expiry inside the 1000 ms feedback delay of the last
\* question schedules a second advance, and each advance past the end
\* calls submitLesson().
C1_SubmittedAtMostOnce == Len(submitted) <= 1

\* C2: the number of answer records never exceeds the number of questions.
\* Refuted by the same expiry inside the feedback delay.
C2_RecordsWithinQuestions == Len(answers) <= Len(currentQuestions)

\* C3 as stated: the cursor equals the number of answer records in every
\* state.  Refuted by every answer: the record is pushed at once, the
\* cursor moves a timeout later.
C3_CursorEqualsRecords == currentIndex = Len(answers)

\* C3 amended: the cursor equals the number of answer records minus the
\* number of advance callbacks still pending, so the two are equal exactly
\* when no advance is pending.
C3_CursorTrailsByPending == currentIndex + pendingAdvance = Len(answers)

\* C3 witness: a second answer is recorded and its advance is still pending
C3_Witness ==
    /\ Len(answers) = 2
    /\ currentIndex = 1
    /\ pendingAdvance = 1

\* C4: the i-th answer record carries the id of the i-th question.
\* Refuted: after an expiry inside the feedback delay one question has two
\* records and the next one is skipped.
C4_RecordsFollowQuestions ==
    \A i \in 1..Len(answers) :
        /\ i <= Len(currentQuestions)
        /\ answers[i].question_id = currentQuestions[i].id

\* the question under the cursor already has its record, or there is none
CursorSettled ==
    \/ ~HasCurrentQuestion
    \/ \E i \in 1..Len(answers) :
          answers[i].question_id = currentQuestions[currentIndex + 1].id

\* C5: once the question under the cursor has a record (or the cursor is
\* past the end), a further answer or expiry adds no record and schedules
\* no further advance.
\* Refuted: handleAnswer(null) from the expiry pushes a second record for
\* the question the learner has just answered.
C5_SecondArrivalIgnored ==
    [][CursorSettled =>
          /\ answers' = answers
          /\ pendingAdvance' <= pendingAdvance]_vars

\* C10: a timeout (a null answer) is never judged correct.
\* Refuted: String(null) is "null", which equals the text of a correct
\* answer that is null (or the word "null").
C10_TimeoutJudgedIncorrect ==
    \A i \in 1..Len(verdicts) :
        verdicts[i].user_answer = NullV => ~verdicts[i].isCorrect

(***************************************************************************)
(* Unattended sprint (SpecUnattended)                                      *)
(***************************************************************************)
TimedSprint ==
    /\ currentLesson.loaded
    /\ IsSprint(currentLessonType)
    /\ lessonTimer # 0
    /\ Len(currentQuestions) >= 1

\* the records of the first n questions, each forced with a null answer
NullRecords(n) == [i \in 1..n |-> AnswerRecord(currentQuestions[i], NullV)]

\* C11: in a sprint lesson with a per-question timer and N >= 1 questions
\* whose learner never answers, the records are at every moment the null
\* records of the first questions in order, one more than the cursor at
\* most, and eventually the lesson is submitted, once, with exactly N null
\* records.
C11_UnattendedSprintCompletes ==
    /\ [](TimedSprint =>
            /\ Len(answers) <= Len(currentQuestions)
            /\ answers = NullRecords(Len(answers))
            /\ Len(submitted) <= 1)
    /\ (TimedSprint ~>
            /\ submitted = <<NullRecords(Len(currentQuestions))>>
            /\ answers = NullRecords(Len(currentQuestions))
            /\ currentIndex = Len(currentQuestions))

\* C11 witness: a sprint of MaxQuestions questions was forced through by
\* the timer alone and submitted
C11_Witness ==
    /\ TimedSprint
    /\ Len(currentQuestions) = MaxQuestions
    /\ answers = NullRecords(MaxQuestions)
    /\ submitted = <<answers>>
    /\ \A i \in 1..Len(verdicts) : verdicts[i].user_answer = NullV

(***************************************************************************)
(* Lesson timer and empty lessons (Spec)                                   *)
(***************************************************************************)
\* C12: while a recorded answer waits for its delayed advance, the lesson
\* timer is stopped (it can neither tick nor expire for that question).
\* Refuted: handleAnswer leaves the timer running; only the advance, a
\* timeout later, resets and restarts it.
C12_TimerStoppedOnAnswer ==
    (pendingAdvance > 0 /\ lessonTimer # 0) =>
        /\ timers[lessonTimer].interval = 0
        /\ intervals = {}

EmptySession == currentLesson.loaded /\ Len(currentQuestions) = 0

\* C13: a lesson loaded with no questions never becomes active: no Timer
\* is created or started, the empty notice is shown, no answer is ever
\* recorded or judged, no advance is scheduled and nothing is submitted.
C13_EmptyLessonStaysInert ==
    EmptySession =>
        /\ screen = "empty"
        /\ timers = <<>>
        /\ intervals = {}
        /\ lessonTimer = 0
        /\ answers = <<>>
        /\ verdicts = <<>>
        /\ pendingAdvance = 0
        /\ currentIndex = 0
        /\ submitted = <<>>
        /\ inflight = <<>>

\* C13 witness: a sprint lesson came back without questions
C13_Witness ==
    /\ EmptySession
    /\ IsSprint(currentLessonType)
    /\ screen = "empty"

\* C14: in every state after the lesson has been submitted, the lesson
\* timer is not running: its handle is cleared and no interval is live, so
\* no expiry can reach the session (an advance that restarts the timer
\* past the last question stops it again in the same callback).
C14_NoTimerAfterSubmit ==
    submitted # <<>> =>
        /\ intervals = {}
        /\ \A k \in 1..Len(timers) : timers[k].interval = 0

\* C14 witness: a timed lesson was submitted, and a late advance restarted
\* the timer and submitted again
C14_Witness ==
    /\ lessonTimer # 0
    /\ Len(submitted) = 2
    /\ pendingAdvance = 0

(***************************************************************************)
(* Answer verdict (Spec), stated without the operators of the check:       *)
(* decoding as the inverse of JSON encoding, equality of text up to        *)
(* surrounding blanks and letter case.                                     *)
(***************************************************************************)
CasePairs ==
    {<<"A", "a">>, <<"B", "b">>, <<"N", "n">>, <<"U", "u">>, <<"L", "l">>}

SameLetter(c, d) == c = d \/ <<c, d>> \in CasePairs \/ <<d, c>> \in CasePairs

\* x without lead blanks at the front and trail blanks at the end
Core(x, lead, trail) == SubSeq(x, lead + 1, Len(x) - trail)

\* Core(x, lead, trail) is x with all its surrounding blanks removed
IsCore(x, lead, trail) ==
    /\ lead + trail <= Len(x)
    /\ \A i \in 1..lead : x[i] = " "
    /\ \A i \in (Len(x) - trail + 1)..Len(x) : x[i] = " "
    /\ LET c == Core(x, lead, trail) IN
         c # <<>> => c[1] # " " /\ c[Len(c)] # " "

SameText(x, y) ==
    \E lx, tx \in 0..Len(x), ly, ty \in 0..Len(y) :
        /\ IsCore(x, lx, tx)
        /\ IsCore(y, ly, ty)
        /\ LET cx == Core(x, lx, tx)
               cy == Core(y, ly, ty)
           IN  /\ Len(cx) = Len(cy)
               /\ \A i \in 1..Len(cx) : SameLetter(cx[i], cy[i])

\* the JSON text of a scalar value
JsonText(v) ==
    CASE v.t = "null"   -> TxtNull
      [] v.t = "string" -> <<"\"">> \o v.s \o <<"\"">>
      [] OTHER          -> v.s

Pieces(x) == {SubSeq(x, i, j) : i \in 1..(Len(x) + 1), j \in 0..Len(x)}

\* the scalar values whose JSON text could be x
Encodable(x) ==
    {NullV, BoolV(TxtTrue), BoolV(TxtFalse)}
        \cup {NumV(d) : d \in {z \in Pieces(x) :
                 /\ z # <<>>
                 /\ \A i \in 1..Len(z) : z[i] \in {"0", "1", "2"}
                 /\ (Len(z) > 1 => z[1] # "0")}}
        \cup {StrV(z) : z \in {w \in Pieces(x) :
                 \A i \in 1..Len(w) : w[i] # "\""}}

\* the values x is the JSON text of, blanks around the text allowed
Decodings(x) ==
    {v \in Encodable(x) :
        \E lead, trail \in 0..Len(x) :
            /\ IsCore(x, lead, trail)
            /\ Core(x, lead, trail) = JsonText(v)}

\* the text the correct answer stands for: decoded when it is a string
\* that is the JSON text of a value, raw otherwise
CorrectTexts(correct) ==
    IF correct.t = "string" /\ Decodings(correct.s) # {}
    THEN {String(v) : v \in Decodings(correct.s)}
    ELSE {String(correct)}

\* C15: the latest verdict (so, in turn, every verdict) is true exactly
\* when the submitted value and the decoded (else raw) correct answer are
\* the same text up to surrounding blanks and letter case; every call that
\* found a question, undecodable correct answers included, left its record
\* and its verdict and scheduled its advance.
C15_VerdictIsNormalizedEquality ==
    /\ Len(verdicts) = Len(answers)
    /\ currentIndex + pendingAdvance = Len(verdicts)
    /\ \A i \in {Len(verdicts)} \ {0} :
         /\ verdicts[i].user_answer = answers[i].user_answer
         /\ verdicts[i].question_id = answers[i].question_id
         /\ Cardinality(CorrectTexts(answers[i].correct_answer)) = 1
         /\ verdicts[i].isCorrect <=>
               \E t \in CorrectTexts(answers[i].correct_answer) :
                   SameText(String(answers[i].user_answer), t)

\* C15 witness: "b" was judged correct against the JSON text "B" in
\* quotes, and the question whose correct answer is the broken JSON text
\* "a (one quote) was answered, judged wrong and passed
C15_Witness ==
    /\ \E i \in 1..Len(verdicts) :
         /\ verdicts[i].question_id = 2
         /\ verdicts[i].user_answer = StrV(<<"b">>)
         /\ verdicts[i].isCorrect
    /\ \E i \in 1..Len(verdicts) :
         /\ verdicts[i].question_id = 5
         /\ verdicts[i].user_answer = StrV(<<"a">>)
         /\ ~verdicts[i].isCorrect
         /\ currentIndex >= i

(***************************************************************************)
(* Scoring and progression.  The engine that turns answer records into a   *)
(* lesson result runs on the server; it is modelled from its contract      *)
(* (score, XP, streak, level-up, mistakes).  The level table is the one    *)
(* the dashboard carries, and showResults is the front-end code that       *)
(* draws the result and folds it into the cached user.                     *)
(***************************************************************************)
MaxScored == 3     \* questions in a scored lesson: 1..MaxScored
MaxEvents == 2     \* lessons scored for one learner
MaxStreak == 2     \* streak values explored: 0..MaxStreak

Levels == <<"A1", "A2", "B1", "B2", "C1", "C2">>

LevelSet == {Levels[i] : i \in 1..Len(Levels)}

\* position in A1 < A2 < B1 < B2 < C1 < C2, 0 for an unset level
LevelRank(l) ==
    IF l \in LevelSet THEN CHOOSE i \in 1..Len(Levels) : Levels[i] = l ELSE 0

\* the table with a different A1/A2 boundary
LevelThresholdsShifted ==
    [l \in LevelSet |->
        CASE l = "A1" -> [min |-> 0,     max |-> 600,   next |-> "A2"]
          [] l = "A2" -> [min |-> 600,   max |-> 1500,  next |-> "B1"]
          [] l = "B1" -> [min |-> 1500,  max |-> 3500,  next |-> "B2"]
          [] l = "B2" -> [min |-> 3500,  max |-> 7000,  next |-> "C1"]
          [] l = "C1" -> [min |-> 7000,  max |-> 12000, next |-> "C2"]
          [] l = "C2" -> [min |-> 12000, max |-> 20000, next |-> "Max"]]

LevelThresholds ==
    [l \in LevelSet |->
        CASE l = "A1" -> [min |-> 0,     max |-> 500,   next |-> "A2"]
          [] l = "A2" -> [min |-> 500,   max |-> 1500,  next |-> "B1"]
          [] l = "B1" -> [min |-> 1500,  max |-> 3500,  next |-> "B2"]
          [] l = "B2" -> [min |-> 3500,  max |-> 7000,  next |-> "C1"]
          [] l = "C1" -> [min |-> 7000,  max |-> 12000, next |-> "C2"]
          [] l = "C2" -> [min |-> 12000, max |-> 20000, next |-> "Max"]]

\* the level whose range [min, max) contains xp, "unset" when none does
LevelOf(xp) ==
    LET hit == {l \in LevelSet : /\ LevelThresholds[l].min <= xp
                                 /\ xp < LevelThresholds[l].max}
    IN  IF hit = {} THEN "unset" ELSE CHOOSE l \in hit : TRUE

\* ---- the engine: score(answerRecords, priorSnapshot, day) ----
RECURSIVE CorrectCount(_)
CorrectCount(records) ==
    IF records = <<>> THEN 0
    ELSE (IF Head(records).isCorrect THEN 1 ELSE 0)
         + CorrectCount(Tail(records))

RECURSIVE XpOfCorrect(_)
XpOfCorrect(records) ==
    IF records = <<>> THEN 0
    ELSE (IF Head(records).isCorrect THEN Head(records).xp ELSE 0)
         + XpOfCorrect(Tail(records))

\* round(n / d) for n >= 0 and d > 0, halves rounded up
Round(n, d) == (2 * n + d) \div (2 * d)

ScorePct(records) == Round(100 * CorrectCount(records), Len(records))

Mistakes(records) == SelectSeq(records, LAMBDA r : ~r.isCorrect)

NewStreak(prior, day) ==
    CASE day = "next" -> prior.current_streak + 1
      [] day = "same" -> prior.current_streak
      [] OTHER        -> 1

Score(records, prior, day) ==
    LET earned == XpOfCorrect(records)
        level  == LevelOf(prior.xp_total + earned)
        up     == LevelRank(level) > LevelRank(prior.cefr_level)
    IN  [score           |-> ScorePct(records),
         xp_earned       |-> earned,
         correct_count   |-> CorrectCount(records),
         total_questions |-> Len(records),
         new_streak      |-> NewStreak(prior, day),
         level_up        |-> up,
         new_level       |-> IF up THEN level ELSE "unset",
         mistakes        |-> Mistakes(records)]

NextSnapshot(prior, result) ==
    [xp_total       |-> prior.xp_total + result.xp_earned,
     current_streak |-> result.new_streak,
     cefr_level     |-> IF result.level_up THEN result.new_level
                        ELSE prior.cefr_level]

\* ---- showResults (lessons.js) ----
ShownPercentageAsCount(result) == result.correct_count

ShownPercentage(result) == result.score

CachedXpOverwritten(u, result) == result.xp_earned

CachedXp(u, result) == u.xp_total + result.xp_earned

CachedLevelAlwaysNew(u, result) == result.new_level

CachedLevel(u, result) ==
    IF result.level_up THEN result.new_level ELSE u.cefr_level

CachedUserAfter(u, result) ==
    IF u.present
    THEN [present        |-> TRUE,
          xp_total       |-> CachedXp(u, result),
          current_streak |-> result.new_streak,
          cefr_level     |-> CachedLevel(u, result)]
    ELSE u

\* ---- the lessons the engine is given ----
QuestionXp(i) == IF i % 2 = 1 THEN 10 ELSE 20

ScoredLessons ==
    UNION {{[i \in 1..t |-> [id |-> i, isCorrect |-> i \in c,
                             xp |-> QuestionXp(i)]] : c \in SUBSET (1..t)}
           : t \in 1..MaxScored}

Days == {"same", "next", "later"}

PriorXp == {0, 490, 1490, 11990}

PriorSnapshots ==
    {[xp_total |-> x, current_streak |-> k, cefr_level |-> l] :
        x \in PriorXp, k \in {0, 1}, l \in LevelSet \cup {"unset"}}

InitScoring ==
    /\ timers = <<>>
    /\ intervals = {}
    /\ ProbeIdle
    /\ LessonIdle
    /\ snapshot \in {p \in PriorSnapshots :
                        \/ p.cefr_level = "unset"
                        \/ LevelRank(p.cefr_level)
                             >= LevelRank(LevelOf(p.xp_total))}
    /\ user \in {NoUser, [present |-> TRUE, xp_total |-> snapshot.xp_total,
                          current_streak |-> snapshot.current_streak,
                          cefr_level |-> snapshot.cefr_level]}
    /\ lastRecords = <<>>
    /\ lastResult = NoResult
    /\ shownPercentage = -1
    /\ scoreEvents = 0
    /\ SpeakIdle
    /\ FreeTalkIdle
    /\ respondCall = NoCall
    /\ token = (IF user.present THEN 1 ELSE 0)
    /\ authCall = NoAuthCall
    /\ DashIdle

\* one lesson is scored and its result shown
ScoreLesson ==
    /\ scoreEvents < MaxEvents
    /\ \E records \in ScoredLessons, day \in Days :
        /\ day = "next" => snapshot.current_streak < MaxStreak
        /\ LET result == Score(records, snapshot, day)
           IN  /\ lastRecords' = records
               /\ lastResult' = result
               /\ snapshot' = NextSnapshot(snapshot, result)
               /\ shownPercentage' = ShownPercentage(result)
               /\ user' = CachedUserAfter(user, result)
    /\ scoreEvents' = scoreEvents + 1
    /\ UNCHANGED timerVars
    /\ UNCHANGED probeVars
    /\ UNCHANGED lessonVars
    /\ UNCHANGED speakVars
    /\ UNCHANGED ftVars
    /\ UNCHANGED callVars
    /\ UNCHANGED authVars
    /\ UNCHANGED dashVars

NextScoring == ScoreLesson

SpecScoring == InitScoring /\ [][NextScoring]_vars

(***************************************************************************)
(* Scoring claims                                                          *)
(***************************************************************************)
Scored == scoreEvents > 0

CorrectIn(records) ==
    Cardinality({i \in 1..Len(records) : records[i].isCorrect})

\* C16: for every scored lesson with total >= 1 questions the percentage
\* on the result screen is round(100 * correct / total): an integer in
\* 0..100 no further than one half from the exact quotient, 0 when no
\* answer is correct and 100 when all are.
C16_ScoreIsRoundedPercentage ==
    Scored =>
        LET c == CorrectIn(lastRecords)
            t == Len(lastRecords)
            p == shownPercentage
            d == 100 * c - p * t
        IN  /\ t >= 1
            /\ lastResult.correct_count = c
            /\ lastResult.total_questions = t
            /\ p \in 0..100
            /\ 2 * d <= t
            /\ 2 * (0 - d) <= t
            /\ c = 0 => p = 0
            /\ c = t => p = 100

C16_Witness ==
    /\ Scored
    /\ Len(lastRecords) = 3
    /\ CorrectIn(lastRecords) = 1
    /\ shownPercentage = 33

\* XP values carried by the records, and the XP of the correct ones summed
\* value by value
XpValues(records) == {records[i].xp : i \in 1..Len(records)}

RECURSIVE SumByValue(_, _)
SumByValue(records, values) ==
    IF values = {} THEN 0
    ELSE LET v == CHOOSE x \in values : TRUE
         IN  v * Cardinality({i \in 1..Len(records) :
                                 records[i].isCorrect /\ records[i].xp = v})
             + SumByValue(records, values \ {v})

CorrectXp(records) == SumByValue(records, XpValues(records))

\* C17: the XP earned by a lesson is the sum of the XP values of exactly
\* the questions answered correctly, 0 when every answer is incorrect; the
\* snapshot's total and the cached user's total grow by exactly that sum.
C17_XpIsSumOfCorrect ==
    [][scoreEvents' = scoreEvents + 1 =>
        /\ lastResult'.xp_earned = CorrectXp(lastRecords')
        /\ CorrectIn(lastRecords') = 0 => lastResult'.xp_earned = 0
        /\ snapshot'.xp_total = snapshot.xp_total + CorrectXp(lastRecords')
        /\ user.present =>
             user'.xp_total = user.xp_total + CorrectXp(lastRecords')]_vars

C17_Witness ==
    /\ scoreEvents = 2
    /\ user.present
    /\ Len(lastRecords) = 3
    /\ CorrectIn(lastRecords) = 2
    /\ lastResult.xp_earned = 30
    /\ user.xp_total = snapshot.xp_total
    /\ user.xp_total > 520

\* C18: over any sequence of scoring events the learner's level, in the
\* snapshot and in the cached user, never decreases in the order
\* A1 < A2 < B1 < B2 < C1 < C2 (unset below A1), and it changes only in a
\* scoring event, to the level that event reports.
C18_LevelNeverDecreases ==
    [][/\ LevelRank(snapshot'.cefr_level) >= LevelRank(snapshot.cefr_level)
       /\ LevelRank(user'.cefr_level) >= LevelRank(user.cefr_level)
       /\ snapshot'.cefr_level # snapshot.cefr_level =>
            /\ scoreEvents' = scoreEvents + 1
            /\ lastResult'.level_up
            /\ snapshot'.cefr_level = lastResult'.new_level
       /\ user'.cefr_level # user.cefr_level =>
            /\ scoreEvents' = scoreEvents + 1
            /\ lastResult'.level_up
            /\ user'.cefr_level = lastResult'.new_level]_vars

\* a second event that awards XP without a level-up, after a level-up
C18_Witness ==
    /\ scoreEvents = 2
    /\ user.present
    /\ user.cefr_level = "A2"
    /\ snapshot.cefr_level = "A2"
    /\ snapshot.xp_total > 500
    /\ lastResult.xp_earned > 0
    /\ ~lastResult.level_up

\* levels whose range [min, max) of the table contains xp
Containing(xp) ==
    {l \in LevelSet : LevelThresholds[l].min <= xp
                      /\ xp < LevelThresholds[l].max}

\* C19: after a scoring event level_up is true exactly when the level
\* whose threshold range contains prior XP + earned XP is strictly higher
\* than the prior level, and new_level is then that level; a prior total
\* of 490 plus 20 XP gives level_up = true and new level A2.
C19_LevelUpIffHigherLevel ==
    [][scoreEvents' = scoreEvents + 1 =>
        LET total  == snapshot.xp_total + lastResult'.xp_earned
            higher == {l \in Containing(total) :
                          LevelRank(l) > LevelRank(snapshot.cefr_level)}
        IN  /\ lastResult'.level_up <=> higher # {}
            /\ lastResult'.level_up => lastResult'.new_level \in higher
            /\ lastResult'.level_up =>
                 /\ snapshot'.cefr_level = lastResult'.new_level
                 /\ user.present => user'.cefr_level = lastResult'.new_level
            /\ (/\ snapshot.xp_total = 490
                /\ lastResult'.xp_earned = 20
                /\ LevelRank(snapshot.cefr_level) <= 1) =>
                 /\ lastResult'.level_up
                 /\ lastResult'.new_level = "A2"]_vars

C19_Witness ==
    /\ scoreEvents = 1
    /\ snapshot.xp_total = 510
    /\ lastResult.xp_earned = 20
    /\ lastResult.level_up
    /\ lastResult.new_level = "A2"
    /\ user.present
    /\ user.cefr_level = "A2"

(***************************************************************************)
(* Roleplay conversation.  The page (speaking.js) starts a session, sends  *)
(* responses and handles the replies; the session itself (turn counter,    *)
(* transcript, completion) is kept by the service and is modelled from     *)
(* its contract.  Requests and replies travel independently, so replies    *)
(* can be handled in any order; a message is identified by the turn that   *)
(* produced it.                                                            *)
(***************************************************************************)
MaxTurns    == 3                \* maximum turn counts tried: 1..MaxTurns
MaxInflight == 2                \* respond calls awaiting their reply
MaxSends    == MaxTurns + 2     \* respond calls made in one session

Undefined == -1                 \* a field the reply does not carry

\* ---- the AI provider: sub-scores it gives to the turns ----
\* provider 1 scores every turn alike, provider 2 scores odd and even
\* turns differently
Providers == {1, 2}

TurnAnalysis(provider, t) ==
    IF provider = 1 \/ t % 2 = 0
    THEN [fluency |-> 90, grammar |-> 80, vocabulary |-> 100]
    ELSE [fluency |-> 40, grammar |-> 50, vocabulary |-> 60]

NoAnalysis ==
    [fluency |-> Undefined, grammar |-> Undefined, vocabulary |-> Undefined]

\* ---- the service: start and respond ----
StartSession(m, provider) ==
    [state |-> "Open", turn |-> 0, max_turns |-> m,
     transcript |-> <<[speaker |-> "ai", turn |-> 0]>>,
     provider |-> provider]

ErrorBody(req, error) ==
    [req |-> req, kind |-> "error", error |-> error, turn |-> Undefined,
     is_complete |-> FALSE, ai_message |-> FALSE, analysis |-> NoAnalysis]

Respond(sess, req, providerOk) ==
    IF sess.state = "Completed"
    THEN [session |-> sess, result |-> ErrorBody(req, "SessionCompleted")]
    ELSE IF ~providerOk
    THEN [session |-> sess, result |-> ErrorBody(req, "ProviderFailed")]
    ELSE LET t    == sess.turn + 1
             done == t = sess.max_turns
         IN  [session |->
                 [state      |-> IF done THEN "Completed" ELSE "Open",
                  turn       |-> t,
                  max_turns  |-> sess.max_turns,
                  transcript |-> sess.transcript
                                 \o <<[speaker |-> "user", turn |-> t],
                                      [speaker |-> "ai", turn |-> t]>>,
                  provider   |-> sess.provider],
              result |->
                 [req |-> req, kind |-> "ok", error |-> "none", turn |-> t,
                  is_complete |-> done, ai_message |-> TRUE,
                  analysis |-> TurnAnalysis(sess.provider, t)]]

\* ---- the page ----
AddMessage(history, text, isAi) ==
    Append(history, [text |-> text, isAi |-> isAi])

ShowsCompleteOnAnyReply(result) == result.kind = "ok"

\* handleRoleplayResponse: if (result.is_complete) showSessionComplete
ShowsComplete(result) == result.is_complete

\* showSessionComplete: the average and the three circles it draws
SessionCompleteScores(result) ==
    [avg        |-> Round(result.analysis.fluency + result.analysis.grammar
                          + result.analysis.vocabulary, 3),
     fluency    |-> result.analysis.fluency,
     grammar    |-> result.analysis.grammar,
     vocabulary |-> result.analysis.vocabulary]

\* showFeedback(analysis) reads analysis.fluency_score once the feedback
\* panel is found: it throws on a body without analysis while the
\* conversation is on screen, and returns early on the completion screen
FeedbackThrows(result, scr) ==
    result.kind = "error" /\ scr = "conversation"

HistoryAfterStartEmpty(opening) == <<>>

\* startRoleplay: conversationHistory = []; addMessage(result.ai_message,
\* true)
HistoryAfterStart(opening) == AddMessage(<<>>, opening, TRUE)

\* window.startRoleplay, the start request answered by the service
StartRoleplay ==
    /\ speakScreen = "scenarios"
    /\ session.state = "none"
    /\ \E m \in 1..MaxTurns, provider \in Providers :
          session' = StartSession(m, provider)
    /\ currentSession' = 1
    /\ conversationHistory' = HistoryAfterStart(0)
    /\ speakScreen' = "conversation"
    /\ currentTurnEl' = 1
    /\ UNCHANGED <<pendingAi, rpRequests, rpResponses, sends, errorToasts,
                   shownScores>>
    /\ UNCHANGED <<timerVars, probeVars, lessonVars, scoreVars>>
    /\ UNCHANGED callVars
    /\ UNCHANGED authVars
    /\ UNCHANGED dashVars
    /\ UNCHANGED ftVars

\* window.sendTextResponse / sendAudioResponse up to the await
SendResponse ==
    /\ speakScreen = "conversation"
    /\ sends < MaxSends
    /\ Len(rpRequests) + Cardinality(rpResponses) < MaxInflight
    /\ sends' = sends + 1
    /\ rpRequests' = Append(rpRequests, sends + 1)
    /\ UNCHANGED <<currentSession, conversationHistory, speakScreen,
                   currentTurnEl, pendingAi, rpResponses, errorToasts,
                   shownScores, session>>
    /\ UNCHANGED <<timerVars, probeVars, lessonVars, scoreVars>>
    /\ UNCHANGED callVars
    /\ UNCHANGED authVars
    /\ UNCHANGED dashVars
    /\ UNCHANGED ftVars

\* the service takes one request; the AI provider answers or fails
ServiceRespond ==
    /\ \E i \in 1..Len(rpRequests), providerOk \in BOOLEAN :
        LET r == Respond(session, rpRequests[i], providerOk)
        IN  /\ session' = r.session
            /\ rpResponses' = rpResponses \cup {r.result}
            /\ rpRequests' = RemoveAt(rpRequests, i)
    /\ UNCHANGED <<currentSession, conversationHistory, speakScreen,
                   currentTurnEl, pendingAi, sends, errorToasts, shownScores>>
    /\ UNCHANGED <<timerVars, probeVars, lessonVars, scoreVars>>
    /\ UNCHANGED callVars
    /\ UNCHANGED authVars
    /\ UNCHANGED dashVars
    /\ UNCHANGED ftVars

\* the request never reaches the service: fetch rejects
NetworkFail ==
    /\ \E i \in 1..Len(rpRequests) :
        /\ rpResponses' = rpResponses \cup
              {[req |-> rpRequests[i], kind |-> "reject", error |-> "network",
                turn |-> Undefined, is_complete |-> FALSE,
                ai_message |-> FALSE, analysis |-> NoAnalysis]}
        /\ rpRequests' = RemoveAt(rpRequests, i)
    /\ UNCHANGED <<currentSession, conversationHistory, speakScreen,
                   currentTurnEl, pendingAi, sends, errorToasts, shownScores,
                   session>>
    /\ UNCHANGED <<timerVars, probeVars, lessonVars, scoreVars>>
    /\ UNCHANGED callVars
    /\ UNCHANGED authVars
    /\ UNCHANGED dashVars
    /\ UNCHANGED ftVars

\* the awaited fetch settles: catch on a rejection, handleRoleplayResponse
\* on any parsed body (an error body has none of the fields it reads)
HandleResponse ==
    /\ \E result \in rpResponses :
        /\ rpResponses' = rpResponses \ {result}
        /\ IF result.kind = "reject"
           THEN /\ errorToasts' = errorToasts + 1
                /\ UNCHANGED <<conversationHistory, currentTurnEl, pendingAi,
                               speakScreen, shownScores>>
           ELSE /\ conversationHistory' =
                      AddMessage(conversationHistory, result.turn, FALSE)
                /\ currentTurnEl' =
                      IF speakScreen # "conversation" THEN currentTurnEl
                      ELSE IF result.turn = Undefined THEN 0
                      ELSE result.turn
                /\ errorToasts' =
                      IF FeedbackThrows(result, speakScreen)
                      THEN errorToasts + 1
                      ELSE errorToasts
                /\ pendingAi' =
                      IF /\ ~FeedbackThrows(result, speakScreen)
                         /\ ~result.is_complete
                         /\ result.ai_message
                      THEN Append(pendingAi, result.turn)
                      ELSE pendingAi
                /\ IF result.kind = "ok" /\ ShowsComplete(result)
                   THEN /\ speakScreen' = "complete"
                        /\ shownScores' = SessionCompleteScores(result)
                   ELSE UNCHANGED <<speakScreen, shownScores>>
    /\ UNCHANGED <<currentSession, rpRequests, sends, session>>
    /\ UNCHANGED <<timerVars, probeVars, lessonVars, scoreVars>>
    /\ UNCHANGED callVars
    /\ UNCHANGED authVars
    /\ UNCHANGED dashVars
    /\ UNCHANGED ftVars

\* the 500 ms timeout of handleRoleplayResponse adds the AI message
AiTimeout ==
    /\ pendingAi # <<>>
    /\ conversationHistory' =
          AddMessage(conversationHistory, Head(pendingAi), TRUE)
    /\ pendingAi' = Tail(pendingAi)
    /\ UNCHANGED <<currentSession, speakScreen, currentTurnEl, rpRequests,
                   rpResponses, sends, errorToasts, shownScores, session>>
    /\ UNCHANGED <<timerVars, probeVars, lessonVars, scoreVars>>
    /\ UNCHANGED callVars
    /\ UNCHANGED authVars
    /\ UNCHANGED dashVars
    /\ UNCHANGED ftVars

InitRoleplay ==
    /\ timers = <<>>
    /\ intervals = {}
    /\ ProbeIdle
    /\ LessonIdle
    /\ ScoreIdle
    /\ SpeakIdle
    /\ FreeTalkIdle
    /\ respondCall = NoCall
    /\ AuthIdle
    /\ DashIdle

NextRoleplay ==
    \/ StartRoleplay
    \/ SendResponse
    \/ ServiceRespond
    \/ NetworkFail
    \/ HandleResponse
    \/ AiTimeout

SpecRoleplay == InitRoleplay /\ [][NextRoleplay]_vars

(***************************************************************************)
(* Roleplay claims                                                         *)
(***************************************************************************)
\* turns whose reply the page has handled
HandledTurns ==
    {conversationHistory[i].text : i \in
        {j \in 1..Len(conversationHistory) : ~conversationHistory[j].isAi}}
    \ {Undefined}

\* successful respond calls: user turns in the service's transcript
SuccessfulResponds ==
    Cardinality({i \in 1..Len(session.transcript) :
                    session.transcript[i].speaker = "user"})

\* C20: a roleplay session with maximum turn count M is Completed exactly
\* when M respond calls have succeeded, its turn counter and the counter
\* on the page never exceed M, and the page shows the completion screen
\* exactly when it has handled the reply of the M-th successful respond.
C20_CompletedAtMaxTurns ==
    session.state # "none" =>
        /\ session.turn = SuccessfulResponds
        /\ session.turn <= session.max_turns
        /\ session.state = "Completed" <=> SuccessfulResponds = session.max_turns
        /\ currentTurnEl <= session.max_turns
        /\ speakScreen = "complete" <=> session.max_turns \in HandledTurns
        /\ speakScreen = "complete" => session.state = "Completed"

\* completion after three successful responds, the second attempt having
\* failed at the provider
C20_Witness ==
    /\ session.max_turns = 3
    /\ session.state = "Completed"
    /\ SuccessfulResponds = 3
    /\ sends = 4
    /\ speakScreen = "complete"
    /\ HandledTurns = {1, 2, 3}

\* C21: once the session is Completed every further respond fails with
\* SessionCompleted and changes nothing: the service keeps its transcript
\* and turn counter, and the page, handling that failure, keeps its
\* message history and the turn it shows.
C21_CompletedSessionIsFrozen ==
    [][session.state = "Completed" =>
        /\ session' = session
        /\ \A r \in rpResponses' \ rpResponses :
              r.kind = "reject" \/ r.error = "SessionCompleted"
        /\ (\E r \in rpResponses \ rpResponses' :
                r.error = "SessionCompleted") =>
              /\ conversationHistory' = conversationHistory
              /\ currentTurnEl' = currentTurnEl]_vars

\* a respond whose provider call failed: the request was lost on the way
\* or the service answered with the provider's failure
ProviderFailure(r) == r.kind = "reject" \/ r.error = "ProviderFailed"

\* C25: when the provider call of a respond fails, the session keeps the
\* transcript and the turn counter it had: the service records no turn,
\* the page appends no user message and schedules no AI message, and the
\* failure is reported by an error toast.
C25_FailedRespondLeavesSession ==
    [][/\ (\E r \in rpResponses' \ rpResponses : ProviderFailure(r)) =>
            session' = session
       /\ (\E r \in rpResponses \ rpResponses' : ProviderFailure(r)) =>
            /\ conversationHistory' = conversationHistory
            /\ pendingAi' = pendingAi
            /\ speakScreen' = speakScreen
            /\ errorToasts' = errorToasts + 1]_vars

\* every message of the page's history carries a text, i.e. no failure
\* body has been handled as a reply
NoUndefinedMessage ==
    \A i \in 1..Len(conversationHistory) :
        conversationHistory[i].text # Undefined

\* C26: after the opening message the transcript alternates user and AI
\* turns, the user turn of a respond directly followed by its AI turn,
\* and turns stand in submission order; this holds of the service's
\* transcript and of the page's message history.
C26_TranscriptAlternates ==
    /\ \A i \in 1..Len(session.transcript) :
          /\ session.transcript[i].speaker = "ai" <=> i % 2 = 1
          /\ session.transcript[i].turn = i \div 2
    /\ NoUndefinedMessage =>
          \A i \in 1..Len(conversationHistory) :
              /\ conversationHistory[i].isAi <=> i % 2 = 1
              /\ i > 1 =>
                   conversationHistory[i].text
                      >= conversationHistory[i - 1].text

\* sum of one sub-score over the turns 1..n of the session
RECURSIVE SubScoreSum(_, _, _)
SubScoreSum(provider, sub, n) ==
    IF n = 0 THEN 0
    ELSE TurnAnalysis(provider, n)[sub] + SubScoreSum(provider, sub, n - 1)

\* shown is the mean of the sub-score over n turns, rounded to an integer
IsRoundedMean(shown, provider, sub, n) ==
    LET d == shown * n - SubScoreSum(provider, sub, n)
    IN  2 * d <= n /\ 2 * (0 - d) <= n

\* C27: the sub-scores of the conversation result drawn on the completion
\* screen are each the arithmetic mean of that sub-score over all turns
\* of the session, not the value of the latest turn.
C27_FinalScoresAreMeans ==
    speakScreen = "complete" =>
        \A sub \in {"fluency", "grammar", "vocabulary"} :
            IsRoundedMean(shownScores[sub], session.provider, sub,
                          session.max_turns)

(***************************************************************************)
(* Free talk.  The page (speaking.js) starts a session, sends messages,    *)
(* handles the replies and ends the session; the session (turns, running   *)
(* averages, completion, XP award) is kept by the service and is modelled  *)
(* from its contract.  One page load runs one conversation, roleplay or    *)
(* free talk.                                                              *)
(***************************************************************************)
MaxTalk == 2                    \* messages sent in one free-talk session
MaxEnds == 2                    \* end calls made in one session

\* ---- the service: start, respond and end ----
RECURSIVE RunningSum(_, _, _)
RunningSum(provider, sub, n) ==
    IF n = 0 THEN 0
    ELSE TurnAnalysis(provider, n)[sub] + RunningSum(provider, sub, n - 1)

\* arithmetic mean of every sub-score over the n turns taken so far
Averages(provider, n) ==
    [sub \in {"fluency", "grammar", "vocabulary"} |->
        IF n = 0 THEN 0 ELSE Round(RunningSum(provider, sub, n), n)]

NoAverages ==
    [sub \in {"fluency", "grammar", "vocabulary"} |-> Undefined]

FreeTalkAward(scores) ==
    20 + (scores["fluency"] + scores["grammar"] + scores["vocabulary"])
            \div 30

StartFreeTalkSession(provider) ==
    [state |-> "Open", turn |-> 0, transcript |-> <<>>,
     provider |-> provider, awards |-> 0]

FtErrorBody(req, op, error) ==
    [req |-> req, op |-> op, kind |-> "error", error |-> error,
     turn |-> Undefined, scores |-> NoAverages, xp_earned |-> Undefined]

FreeTalkRespond(sess, req, providerOk) ==
    IF sess.state = "Completed"
    THEN [session |-> sess,
          result |-> FtErrorBody(req, "respond", "SessionCompleted")]
    ELSE IF ~providerOk
    THEN [session |-> sess,
          result |-> FtErrorBody(req, "respond", "ProviderFailed")]
    ELSE LET t == sess.turn + 1
         IN  [session |->
                 [sess EXCEPT
                     !.turn = t,
                     !.transcript = @ \o <<[speaker |-> "user", turn |-> t],
                                           [speaker |-> "ai", turn |-> t]>>],
              result |->
                 [req |-> req, op |-> "respond", kind |-> "ok",
                  error |-> "none", turn |-> t,
                  scores |-> Averages(sess.provider, t),
                  xp_earned |-> Undefined]]

FreeTalkEnd(sess, req) ==
    IF sess.state = "Completed"
    THEN [session |-> sess,
          result |-> FtErrorBody(req, "end", "AlreadyCompleted")]
    ELSE LET final == Averages(sess.provider, sess.turn)
         IN  [session |-> [sess EXCEPT !.state = "Completed",
                                       !.awards = @ + 1],
              result |->
                 [req |-> req, op |-> "end", kind |-> "ok",
                  error |-> "none", turn |-> sess.turn, scores |-> final,
                  xp_earned |-> FreeTalkAward(final)]]

\* ---- the page ----
\* an endFreeTalk without its guard
EndIsSentAlways(sessionId) == TRUE

\* window.endFreeTalk: if (!freeTalkSession) return
EndIsSent(sessionId) == sessionId # 0

ReplyEndsFreeTalkOnSecond(result) == result.turn >= 2

\* handleFreeTalkResponse has no branch that ends the conversation
ReplyEndsFreeTalk(result) == FALSE

\* window.startFreeTalk, the start request answered by the service
StartFreeTalk ==
    /\ ftScreen = "start"
    /\ ftSession.state = "none"
    /\ \E provider \in Providers :
          ftSession' = StartFreeTalkSession(provider)
    /\ freeTalkSession' = 1
    /\ conversationHistory' = <<>>
    /\ ftScreen' = "talk"
    /\ messageCountEl' = 0
    /\ sessionAvgEl' = -1
    /\ UNCHANGED <<ftRequests, ftResponses, endsSent, resultsDrawn>>
    /\ UNCHANGED <<currentSession, speakScreen, currentTurnEl, pendingAi,
                   rpRequests, rpResponses, sends, errorToasts, shownScores,
                   session>>
    /\ UNCHANGED <<timerVars, probeVars, lessonVars, scoreVars>>
    /\ UNCHANGED callVars
    /\ UNCHANGED authVars
    /\ UNCHANGED dashVars

FtOutstanding == Len(ftRequests) + Cardinality(ftResponses)

\* window.sendFreeTalkText / sendFreeTalkAudio up to the await
SendFreeTalk ==
    /\ ftScreen = "talk"
    /\ sends < MaxTalk
    /\ FtOutstanding < MaxInflight
    /\ sends' = sends + 1
    /\ ftRequests' = Append(ftRequests,
                            [req |-> sends + endsSent + 1, op |-> "respond"])
    /\ UNCHANGED <<freeTalkSession, ftScreen, messageCountEl, sessionAvgEl,
                   ftResponses, endsSent, resultsDrawn, ftSession>>
    /\ UNCHANGED <<currentSession, conversationHistory, speakScreen,
                   currentTurnEl, pendingAi, rpRequests, rpResponses,
                   errorToasts, shownScores, session>>
    /\ UNCHANGED <<timerVars, probeVars, lessonVars, scoreVars>>
    /\ UNCHANGED callVars
    /\ UNCHANGED authVars
    /\ UNCHANGED dashVars

\* window.endFreeTalk up to the await (the End Session button)
EndFreeTalk ==
    /\ ftScreen = "talk"
    /\ EndIsSent(freeTalkSession)
    /\ endsSent < MaxEnds
    /\ FtOutstanding < MaxInflight
    /\ endsSent' = endsSent + 1
    /\ ftRequests' = Append(ftRequests,
                            [req |-> sends + endsSent + 1, op |-> "end"])
    /\ UNCHANGED <<freeTalkSession, ftScreen, messageCountEl, sessionAvgEl,
                   ftResponses, resultsDrawn, ftSession>>
    /\ UNCHANGED speakVars
    /\ UNCHANGED <<timerVars, probeVars, lessonVars, scoreVars>>
    /\ UNCHANGED callVars
    /\ UNCHANGED authVars
    /\ UNCHANGED dashVars

\* the service takes one request; for a respond the provider answers or
\* fails
FtService ==
    /\ \E i \in 1..Len(ftRequests), providerOk \in BOOLEAN :
        LET q == ftRequests[i]
            r == IF q.op = "end" THEN FreeTalkEnd(ftSession, q.req)
                 ELSE FreeTalkRespond(ftSession, q.req, providerOk)
        IN  /\ q.op = "end" => providerOk
            /\ ftSession' = r.session
            /\ ftResponses' = ftResponses \cup {r.result}
            /\ ftRequests' = RemoveAt(ftRequests, i)
    /\ UNCHANGED <<freeTalkSession, ftScreen, messageCountEl, sessionAvgEl,
                   endsSent, resultsDrawn>>
    /\ UNCHANGED speakVars
    /\ UNCHANGED <<timerVars, probeVars, lessonVars, scoreVars>>
    /\ UNCHANGED callVars
    /\ UNCHANGED authVars
    /\ UNCHANGED dashVars

\* the request never reaches the service: fetch rejects
FtNetworkFail ==
    /\ \E i \in 1..Len(ftRequests) :
        /\ ftResponses' = ftResponses \cup
              {[req |-> ftRequests[i].req, op |-> ftRequests[i].op,
                kind |-> "reject", error |-> "network", turn |-> Undefined,
                scores |-> NoAverages, xp_earned |-> Undefined]}
        /\ ftRequests' = RemoveAt(ftRequests, i)
    /\ UNCHANGED <<freeTalkSession, ftScreen, messageCountEl, sessionAvgEl,
                   endsSent, resultsDrawn, ftSession>>
    /\ UNCHANGED speakVars
    /\ UNCHANGED <<timerVars, probeVars, lessonVars, scoreVars>>
    /\ UNCHANGED callVars
    /\ UNCHANGED authVars
    /\ UNCHANGED dashVars

\* the awaited respond settles: catch on a rejection, handleFreeTalkResponse
\* on any parsed body.  It adds the user message and schedules the AI
\* message first; writing #message-count throws once the result screen has
\* replaced the conversation, reading session_averages throws on a body
\* without it.
HandleFtReply ==
    /\ \E result \in {r \in ftResponses : r.op = "respond"} :
        /\ ftResponses' = ftResponses \ {result}
        /\ IF result.kind = "reject"
           THEN /\ errorToasts' = errorToasts + 1
                /\ UNCHANGED <<conversationHistory, pendingAi, messageCountEl,
                               sessionAvgEl, ftScreen, shownScores,
                               resultsDrawn>>
           ELSE /\ conversationHistory' =
                      AddMessage(conversationHistory, result.turn, FALSE)
                /\ pendingAi' = Append(pendingAi, result.turn)
                /\ messageCountEl' =
                      IF ftScreen = "talk" THEN result.turn
                      ELSE messageCountEl
                /\ sessionAvgEl' =
                      IF ftScreen = "talk" /\ result.kind = "ok"
                      THEN Round(result.scores["fluency"]
                                 + result.scores["grammar"]
                                 + result.scores["vocabulary"], 3)
                      ELSE sessionAvgEl
                /\ errorToasts' =
                      IF ftScreen = "talk" /\ result.kind = "ok"
                      THEN errorToasts
                      ELSE errorToasts + 1
                /\ IF ReplyEndsFreeTalk(result)
                   THEN /\ ftScreen' = "result"
                        /\ resultsDrawn' = resultsDrawn + 1
                   ELSE UNCHANGED <<ftScreen, resultsDrawn>>
                /\ UNCHANGED shownScores
    /\ UNCHANGED <<freeTalkSession, ftRequests, endsSent, ftSession>>
    /\ UNCHANGED <<currentSession, speakScreen, currentTurnEl, rpRequests,
                   rpResponses, sends, session>>
    /\ UNCHANGED <<timerVars, probeVars, lessonVars, scoreVars>>
    /\ UNCHANGED callVars
    /\ UNCHANGED authVars
    /\ UNCHANGED dashVars

\* the awaited end settles: the result screen on a result, the catch on a
\* rejection or on a body without final_scores
HandleEndReply ==
    /\ \E result \in {r \in ftResponses : r.op = "end"} :
        /\ ftResponses' = ftResponses \ {result}
        /\ IF result.kind = "ok"
           THEN /\ ftScreen' = "result"
                /\ resultsDrawn' = resultsDrawn + 1
                /\ shownScores' =
                      [avg |-> -1, fluency |-> result.scores["fluency"],
                       grammar |-> result.scores["grammar"],
                       vocabulary |-> result.scores["vocabulary"]]
                /\ UNCHANGED errorToasts
           ELSE /\ errorToasts' = errorToasts + 1
                /\ UNCHANGED <<ftScreen, resultsDrawn, shownScores>>
    /\ UNCHANGED <<freeTalkSession, messageCountEl, sessionAvgEl, ftRequests,
                   endsSent, ftSession>>
    /\ UNCHANGED <<currentSession, conversationHistory, speakScreen,
                   currentTurnEl, pendingAi, rpRequests, rpResponses, sends,
                   session>>
    /\ UNCHANGED <<timerVars, probeVars, lessonVars, scoreVars>>
    /\ UNCHANGED callVars
    /\ UNCHANGED authVars
    /\ UNCHANGED dashVars

NextFreeTalk ==
    \/ StartFreeTalk
    \/ SendFreeTalk
    \/ EndFreeTalk
    \/ FtService
    \/ FtNetworkFail
    \/ HandleFtReply
    \/ HandleEndReply
    \/ AiTimeout

SpecFreeTalk == InitRoleplay /\ [][NextFreeTalk]_vars

(***************************************************************************)
(* Free-talk claims                                                        *)
(***************************************************************************)
\* the step hands the page, or the page handles, the result of an end
EndSucceeds(before, after) ==
    \E r \in after \ before : r.op = "end" /\ r.kind = "ok"

\* C22: a free-talk session never becomes Completed by respond calls,
\* however many turns are taken: the service completes it only in a step
\* that answers an end call with a result, and the page leaves the
\* conversation for the result screen only by handling such a result.
C22_FreeTalkEndsOnlyByEnd ==
    [][/\ (ftSession'.state = "Completed" /\ ftSession.state # "Completed")
            => EndSucceeds(ftResponses, ftResponses')
       /\ (ftScreen' = "result" /\ ftScreen # "result")
            => EndSucceeds(ftResponses', ftResponses)
       /\ ftSession'.turn > ftSession.turn
            => ftSession'.state = "Open"
       /\ ftScreen' = "result"
            => ftSession'.state = "Completed" /\ endsSent' >= 1]_vars

\* both messages answered and shown, then the session ended
C22_Witness ==
    /\ ftSession.turn = 2
    /\ ftSession.state = "Completed"
    /\ ftScreen = "result"
    /\ messageCountEl = 2
    /\ endsSent = 1
    /\ resultsDrawn = 1

\* an end call of this session is on its way or has been answered
EndOutstanding ==
    \/ \E i \in 1..Len(ftRequests) : ftRequests[i].op = "end"
    \/ \E r \in ftResponses : r.op = "end"

\* C23: end() is valid only while the session is Open: a second end() on
\* a session whose end is under way or done sends no request, the service
\* answers an end of a Completed session with AlreadyCompleted, and there
\* is one XP award and one result screen at most.
C23_SecondEndIsRejected ==
    [][/\ endsSent' > endsSent =>
            ~EndOutstanding /\ ftSession.state = "Open"
       /\ ftSession.state = "Completed" =>
            /\ ftSession' = ftSession
            /\ \A r \in ftResponses' \ ftResponses :
                  r.op = "end" /\ r.kind # "reject"
                     => r.error = "AlreadyCompleted"
       /\ ftSession'.awards <= 1
       /\ resultsDrawn' <= 1]_vars

(***************************************************************************)
(* The input of a respond call.  One call is followed from its arguments   *)
(* through api.roleplayRespond (api.freeTalkRespond builds its request     *)
(* the same way) to the service, which validates the body before it asks   *)
(* the AI provider; the session the call meets is any session a roleplay   *)
(* can have reached.                                                       *)
(***************************************************************************)
Blob == [t |-> "blob", s |-> <<>>]

\* JavaScript truthiness of the arguments: null and "" are falsy
Truthy(v) == v # NullV /\ v # StrV(<<>>)

RespondBodyAlwaysText(text, audio) ==
    [user_text |-> TRUE, audio |-> Truthy(audio)]

\* if (text) formData.append('user_text', text);
\* if (audio) formData.append('audio', audio);
RespondBody(text, audio) ==
    [user_text |-> Truthy(text), audio |-> Truthy(audio)]

\* the service: exactly one of text and audio must be supplied
ValidInput(body) == body.user_text # body.audio

RespondTo(sess, req, body, providerOk) ==
    IF ~ValidInput(body)
    THEN [session |-> sess, result |-> ErrorBody(req, "InvalidTurnInput")]
    ELSE Respond(sess, req, providerOk)

ProviderCalled(sess, body) == ValidInput(body) /\ sess.state = "Open"

RECURSIVE SessionAt(_, _, _)
SessionAt(m, provider, t) ==
    IF t = 0 THEN StartSession(m, provider)
    ELSE Respond(SessionAt(m, provider, t - 1), t, TRUE).session

ReachableSessions ==
    {SessionAt(m, provider, t) :
        m \in 1..MaxTurns, provider \in Providers, t \in 0..MaxTurns}

ApiTexts == {NullV, StrV(<<>>), StrV(<<"h", "i">>)}

ApiAudios == {NullV, Blob}

InputValues == {<<>>, <<" ">>, <<"h", "i">>, <<" ", "h", "i", " ">>}

\* api.roleplayRespond(sessionId, text, audio) answered by the service
CallRespond(via, text, audio, providerOk) ==
    LET body == RespondBody(text, audio)
        r    == RespondTo(session, 1, body, providerOk)
    IN  /\ session' = r.session
        /\ respondCall' =
              [via |-> via, text |-> text, audio |-> audio, body |-> body,
               sent |-> TRUE, error |-> r.result.error,
               providerCalled |-> ProviderCalled(session, body),
               before |-> session]

RespondFrame ==
    /\ UNCHANGED <<currentSession, conversationHistory, speakScreen,
                   currentTurnEl, pendingAi, rpRequests, rpResponses, sends,
                   errorToasts, shownScores>>
    /\ UNCHANGED <<timerVars, probeVars, lessonVars, scoreVars, ftVars>>
    /\ UNCHANGED authVars
    /\ UNCHANGED dashVars

\* api.roleplayRespond called with any arguments
ApiRoleplayRespond ==
    /\ respondCall = NoCall
    /\ \E text \in ApiTexts, audio \in ApiAudios, providerOk \in BOOLEAN :
          CallRespond("api", text, audio, providerOk)
    /\ RespondFrame

\* window.sendTextResponse: the trimmed input, a warning when it is empty
SendTextResponse ==
    /\ respondCall = NoCall
    /\ \E input \in InputValues, providerOk \in BOOLEAN :
        LET text == Trim(input)
        IN  IF text = <<>>
            THEN /\ respondCall' =
                       [NoCall EXCEPT !.via = "text", !.text = StrV(text),
                                      !.error = "warning",
                                      !.before = session]
                 /\ UNCHANGED session
            ELSE CallRespond("text", StrV(text), NullV, providerOk)
    /\ RespondFrame

\* sendAudioResponse(audioBlob), called by toggleRecording with a blob
SendAudioResponse ==
    /\ respondCall = NoCall
    /\ \E providerOk \in BOOLEAN :
          CallRespond("audio", NullV, Blob, providerOk)
    /\ RespondFrame

InitRespondInput ==
    /\ timers = <<>>
    /\ intervals = {}
    /\ ProbeIdle
    /\ LessonIdle
    /\ ScoreIdle
    /\ currentSession = 1
    /\ conversationHistory = <<>>
    /\ speakScreen = "conversation"
    /\ currentTurnEl = 1
    /\ pendingAi = <<>>
    /\ rpRequests = <<>>
    /\ rpResponses = {}
    /\ sends = 0
    /\ errorToasts = 0
    /\ shownScores = NoScores
    /\ session \in ReachableSessions
    /\ FreeTalkIdle
    /\ respondCall = NoCall
    /\ AuthIdle
    /\ DashIdle

NextRespondInput ==
    \/ ApiRoleplayRespond
    \/ SendTextResponse
    \/ SendAudioResponse

SpecRespondInput == InitRespondInput /\ [][NextRespondInput]_vars

RoleplayPage == ftScreen = "start" /\ NextRoleplay

FreeTalkPage == speakScreen = "scenarios" /\ NextFreeTalk

NextSpeaking == RoleplayPage \/ FreeTalkPage

SpecSpeaking == InitRoleplay /\ [][NextSpeaking]_vars

\* C28: immediately after a successful start a roleplay session's
\* transcript holds exactly one turn, the AI's opening message, and a
\* free-talk session's transcript is empty; so are the message histories
\* the page keeps.
C28_TranscriptAfterStart ==
    [][/\ (session.state = "none" /\ session'.state # "none") =>
            /\ session'.transcript = <<[speaker |-> "ai", turn |-> 0]>>
            /\ conversationHistory' = <<[text |-> 0, isAi |-> TRUE]>>
            /\ session'.turn = 0
       /\ (ftSession.state = "none" /\ ftSession'.state # "none") =>
            /\ ftSession'.transcript = <<>>
            /\ conversationHistory' = <<>>
            /\ ftSession'.turn = 0]_vars

\* a free talk just started
C28_Witness ==
    /\ ftSession.state = "Open"
    /\ ftScreen = "talk"
    /\ freeTalkSession = 1
    /\ conversationHistory = <<>>
    /\ sends = 0
    /\ endsSent = 0

\* seq is a prefix of longer
IsPrefix(seq, longer) ==
    /\ Len(seq) <= Len(longer)
    /\ SubSeq(longer, 1, Len(seq)) = seq

\* C30: within one lesson session the question sequence is fixed and the
\* answer-record sequence is append-only: every operation leaves the
\* questions and all previously recorded answer records unchanged, so each
\* earlier answer sequence is a prefix of every later one.
C30_AnswersAppendOnly ==
    [][currentLesson.loaded =>
         /\ currentQuestions' = currentQuestions
         /\ IsPrefix(answers, answers')
         /\ Len(answers') <= Len(answers) + 1]_vars

\* a record has been appended to earlier records, two of them for the same
\* question
C30_Witness ==
    /\ currentLesson.loaded
    /\ Len(answers) >= 2
    /\ answers[Len(answers)].question_id
         = answers[Len(answers) - 1].question_id

\* a respond request that failed: the network rejected it or the service
\* answered it with an error
FailedRespond(r) == r.kind # "ok"

\* C29: no operation is retried automatically: when the page handles the
\* failure of a conversation respond it sends no further request and
\* reports the failure by an error toast, and the reply to a lesson
\* submission, failure included, is followed by no further submission.
C29_NoAutomaticRetry ==
    [][/\ (\E r \in rpResponses \ rpResponses' : FailedRespond(r)) =>
            /\ rpRequests' = rpRequests
            /\ sends' = sends
            /\ errorToasts' = errorToasts + 1
       /\ Len(inflight') < Len(inflight) => submitted' = submitted]_vars

(***************************************************************************)
(* SpecLessonCache: one page load of the lesson module of a signed-in      *)
(* learner, with the scoring engine answering each submission and          *)
(* showResults folding the result into the cached user.                    *)
(***************************************************************************)
\* the cached user of the learner before the lesson
StartUser ==
    [present |-> TRUE, xp_total |-> 0, current_streak |-> 0,
     cefr_level |-> "A1"]

\* the engine's view of a submitted body: per answer record the verdict of
\* the normalizer and the XP value of the question in the catalog
ScoredRecords(body) ==
    [i \in 1..Len(body) |->
        [id        |-> body[i].question_id,
         isCorrect |-> IsCorrect(body[i].user_answer, body[i].correct_answer),
         xp        |-> QuestionXp(body[i].question_id)]]

InitLessonCache ==
    /\ timers = <<>>
    /\ intervals = {}
    /\ ProbeIdle
    /\ LessonIdle
    /\ user = StartUser
    /\ snapshot = [xp_total |-> StartUser.xp_total,
                   current_streak |-> StartUser.current_streak,
                   cefr_level |-> StartUser.cefr_level]
    /\ lastRecords = <<>>
    /\ lastResult = NoResult
    /\ shownPercentage = -1
    /\ scoreEvents = 0
    /\ SpeakIdle
    /\ FreeTalkIdle
    /\ respondCall = NoCall
    /\ token = 1
    /\ authCall = NoAuthCall
    /\ DashIdle

\* submitLesson after its await: the engine has scored the submitted body
\* and showResults(result) draws the result and updates the cached user
SubmitShown ==
    /\ \E i \in 1..Len(inflight) :
        /\ inflight[i] # <<>>
        /\ inflight' = RemoveAt(inflight, i)
        /\ LET records == ScoredRecords(inflight[i])
               result  == Score(records, snapshot, "same")
           IN  /\ lastRecords' = records
               /\ lastResult' = result
               /\ snapshot' = NextSnapshot(snapshot, result)
               /\ shownPercentage' = ShownPercentage(result)
               /\ user' = CachedUserAfter(user, result)
    /\ scoreEvents' = scoreEvents + 1
    /\ screen' = "results"
    /\ rendered' = -1
    /\ UNCHANGED <<currentLesson, currentQuestions, currentIndex, answers,
                   currentLessonType, lessonTimer, pendingAdvance,
                   buttonsDisabled, verdicts, submitted>>
    /\ UNCHANGED timerVars
    /\ UNCHANGED probeVars
    /\ UNCHANGED speakVars
    /\ UNCHANGED ftVars
    /\ UNCHANGED callVars
    /\ UNCHANGED authVars
    /\ UNCHANGED dashVars

NextLessonCache ==
    \/ InitLesson
    \/ LearnerAnswer
    \/ LessonTick
    \/ Advance
    \/ SubmitShown
    \/ SubmitFail

SpecLessonCache == InitLessonCache /\ [][NextLessonCache]_vars

\* C31: the cached progression snapshot is updated exactly once per lesson
\* session: once the results are shown, the cached XP total is the total
\* before the lesson plus the XP earned of the one lesson result, never
\* more, for any interleaving of answers, timer expiries and delayed
\* advances.
C31_CacheUpdatedOnce ==
    screen = "results" =>
        /\ scoreEvents = 1
        /\ user.xp_total = StartUser.xp_total + lastResult.xp_earned

\* live intervals made by start() calls of Timer k
LiveIntervalsOf(k) == {iv \in intervals : iv.owner = k}

\* C32: for any sequence of start, stop and reset calls and ticks, the
\* Timer's remaining time stays within 0..duration and at most one
\* interval of the Timer is live at a time.
C32_TimerWithinBounds ==
    /\ ProbeTimer.remaining \in 0..ProbeTimer.duration
    /\ Cardinality(LiveIntervalsOf(1)) <= 1

(***************************************************************************)
(* SpecReinit: the lesson module when window.initLesson is called again    *)
(* while an earlier lesson is loaded.  The module state is overwritten in  *)
(* place; the Timer of the earlier lesson, its interval and the pending    *)
(* timeouts of handleAnswer stay where they are.                           *)
(***************************************************************************)
MaxLessons == 2           \* initLesson calls on one page
MaxReinitQuestions == 1   \* questions in each of these lessons

ReinitQuestionSets == {qs \in QuestionSets : Len(qs) <= MaxReinitQuestions}

\* time_per_question of the responses, the field always present
ReinitTimes == TimesPerQuestion \ {0}

\* window.initLesson(type) called by the page
FirstLesson ==
    /\ ~currentLesson.loaded
    /\ LoadLesson(1, ReinitQuestionSets, ReinitTimes)

\* window.initLesson(type) called while a lesson is loaded
ReInitLesson ==
    /\ currentLesson.loaded
    /\ currentLesson.lesson_id < MaxLessons
    /\ LoadLesson(currentLesson.lesson_id + 1, ReinitQuestionSets,
                  ReinitTimes)

NextReinit ==
    \/ FirstLesson
    \/ ReInitLesson
    \/ LearnerAnswer
    \/ LessonTick
    \/ Advance
    \/ SubmitOk
    \/ SubmitFail

SpecReinit == Init /\ [][NextReinit]_vars

\* the answer records of the current session that a timer expiry forced
ForcedAnswers == {i \in 1..Len(answers) : answers[i].user_answer = NullV}

\* C33: when a new lesson session is initialised while an earlier one
\* exists, the timer of the earlier session can no longer affect the new
\* one: at most one timer can deliver expiries to the current session, and
\* a session of a non-sprint type never receives a forced (null) answer.
C33_OldTimerCannotAffectNewSession ==
    /\ Cardinality({iv.owner : iv \in intervals}) <= 1
    /\ ~IsSprint(currentLessonType) => ForcedAnswers = {}

(***************************************************************************)
(* SpecTwoModes: the speaking module with window.startRoleplay and         *)
(* window.startFreeTalk both called on one page.  The two conversations    *)
(* have their own containers and session ids and share the module-level    *)
(* conversationHistory and the timeouts of addMessage.                     *)
(***************************************************************************)
MaxTwoModeSends == 2   \* messages sent on the page, both modes together

\* requests of either mode that are not settled yet
Outstanding ==
    Len(rpRequests) + Cardinality(rpResponses) + FtOutstanding

\* the learner waits for each reply before the next click
OneAtATime ==
    /\ sends' <= MaxTwoModeSends
    /\ Outstanding' <= 1

RoleplaySteps == NextRoleplay /\ OneAtATime

FreeTalkSteps == NextFreeTalk /\ OneAtATime

NextTwoModes == RoleplaySteps \/ FreeTalkSteps

SpecTwoModes == InitRoleplay /\ [][NextTwoModes]_vars

\* the AI messages of the page's history that carry a turn of their own
\* (the opening message of a roleplay is turn 0)
AiTurnsShown ==
    {conversationHistory[i].text : i \in
        {j \in 1..Len(conversationHistory) :
            /\ conversationHistory[j].isAi
            /\ conversationHistory[j].text >= 1}}

\* the history on the page was last reset by startFreeTalk
HistoryIsFreeTalk ==
    /\ freeTalkSession # 0
    /\ \/ conversationHistory = <<>>
       \/ Head(conversationHistory) # [text |-> 0, isAi |-> TRUE]

\* C34: a roleplay session and a free-talk session are independent:
\* starting, responding in or ending one of them leaves the other's
\* transcript unchanged, at the service and on the page, and a delayed AI
\* message of one session is never appended to the transcript of the other.
C34_SessionsIndependent ==
    /\ [][/\ session' # session => ftSession' = ftSession
          /\ ftSession' # ftSession => session' = session
          /\ (currentSession # 0 /\ freeTalkSession' # freeTalkSession)
                => conversationHistory' = conversationHistory
          /\ (freeTalkSession # 0 /\ currentSession' # currentSession)
                => conversationHistory' = conversationHistory]_vars
    /\ [](HistoryIsFreeTalk => AiTurnsShown \subseteq 1..ftSession.turn)

\* C35: after a roleplay session has completed its transcript is never
\* modified again, at the service and, once the completion is on screen,
\* on the page: no callback scheduled by an earlier turn appends a message
\* after completion.
C35_TranscriptFrozenAfterCompletion ==
    [][/\ session.state = "Completed" =>
            session'.transcript = session.transcript
       /\ speakScreen = "complete" =>
            conversationHistory' = conversationHistory]_vars

(***************************************************************************)
(* SpecStarts: the speaking module with starts that fail.  A start fails   *)
(* when the request is rejected (kind "reject") or when the backend        *)
(* answers with an error response (kind "error"), a body that has none of  *)
(* session_id, ai_message, scenario.                                       *)
(***************************************************************************)
MaxFailedStarts == 2   \* failing start calls on one page

StartFailures == {"reject", "error"}

\* api.startRoleplay: fetch(...).then(r => r.json()) resolves with every
\* parsed body
StartRoleplayResolves(kind) == kind # "reject"

\* api.startFreeTalk: this.request(...) throws unless response.ok
StartFreeTalkResolves(kind) == kind = "ok"

\* window.startRoleplay whose request fails.  A resolved body is used
\* before anything throws: currentSession = result.session_id,
\* conversationHistory = [], addMessage(result.ai_message, true); then
\* showConversationUI reads scenario.title of undefined and the catch
\* shows the toast.
FailedStartRoleplay ==
    /\ speakScreen = "scenarios"
    /\ ftScreen = "start"
    /\ errorToasts < MaxFailedStarts
    /\ \E kind \in StartFailures :
        IF StartRoleplayResolves(kind)
        THEN /\ currentSession' = Undefined
             /\ conversationHistory' = HistoryAfterStart(Undefined)
        ELSE UNCHANGED <<currentSession, conversationHistory>>
    /\ errorToasts' = errorToasts + 1
    /\ UNCHANGED <<speakScreen, currentTurnEl, pendingAi, rpRequests,
                   rpResponses, sends, shownScores, session>>
    /\ UNCHANGED <<timerVars, probeVars, lessonVars, scoreVars>>
    /\ UNCHANGED callVars
    /\ UNCHANGED authVars
    /\ UNCHANGED dashVars
    /\ UNCHANGED ftVars

\* window.startFreeTalk whose request fails
FailedStartFreeTalk ==
    /\ speakScreen = "scenarios"
    /\ ftScreen = "start"
    /\ errorToasts < MaxFailedStarts
    /\ \E kind \in StartFailures :
        IF StartFreeTalkResolves(kind)
        THEN /\ freeTalkSession' = Undefined
             /\ conversationHistory' = <<>>
             /\ ftScreen' = "talk"
             /\ UNCHANGED errorToasts
        ELSE /\ errorToasts' = errorToasts + 1
             /\ UNCHANGED <<freeTalkSession, conversationHistory, ftScreen>>
    /\ UNCHANGED <<messageCountEl, sessionAvgEl, ftRequests, ftResponses,
                   endsSent, resultsDrawn, ftSession>>
    /\ UNCHANGED <<currentSession, speakScreen, currentTurnEl, pendingAi,
                   rpRequests, rpResponses, sends, shownScores, session>>
    /\ UNCHANGED <<timerVars, probeVars, lessonVars, scoreVars>>
    /\ UNCHANGED callVars
    /\ UNCHANGED authVars
    /\ UNCHANGED dashVars

NextStarts ==
    \/ FailedStartFreeTalk
    \/ FailedStartRoleplay
    \/ RoleplayPage
    \/ FreeTalkPage

SpecStarts == InitRoleplay /\ [][NextStarts]_vars

\* the step is a start that failed: an error toast on the start page
StartFailed ==
    /\ speakScreen = "scenarios" /\ speakScreen' = "scenarios"
    /\ ftScreen = "start" /\ ftScreen' = "start"
    /\ errorToasts' = errorToasts + 1

\* C36: a start of a roleplay or free-talk session that fails (rejected
\* request or error response from the backend) leaves the current session
\* identifiers and the transcript exactly as they were before the call.
C36_FailedStartChangesNothing ==
    [][StartFailed =>
          /\ currentSession' = currentSession
          /\ freeTalkSession' = freeTalkSession
          /\ conversationHistory' = conversationHistory
          /\ session' = session
          /\ ftSession' = ftSession]_vars

(***************************************************************************)
(* SpecAuth: the API client (api.js) and what its calls do to the token    *)
(* and the user stored in localStorage.  A call is taken when it settles:  *)
(* with a 2xx response ("ok"), a 401 ("unauthorized"), another response    *)
(* that is not ok ("error"), or a rejected fetch ("reject").               *)
(***************************************************************************)
MaxAccounts == 2   \* accounts that sign in on this browser

Accounts == 1..MaxAccounts

\* data.user of a successful login or register
AccountUser(a) ==
    [present |-> TRUE, xp_total |-> 0, current_streak |-> a - 1,
     cefr_level |-> IF a = 1 THEN "unset" ELSE "A1"]

Statuses == {"ok", "unauthorized", "error", "reject"}

AuthEndpoints == {"register", "login"}

\* endpoint methods that return this.request(...)
RequestEndpoints ==
    AuthEndpoints \cup
    {"getCurrentUser", "getDailyLesson", "submitLesson", "getScenarios",
     "startFreeTalk", "getDashboard", "getProfile"}

\* endpoint methods that call fetch themselves
FetchEndpoints ==
    {"startRoleplay", "roleplayRespond", "freeTalkRespond", "endFreeTalk",
     "downloadReport"}

\* a request() that hands every parsed body to its caller
RequestReturnsAnyBody(status) == status \in {"ok", "error"}

\* request(): data is returned when response.ok, everything else throws
RequestReturns(status) == status = "ok"

\* request(): if (response.status === 401) { this.clearToken(); ... }
RequestClears(status) == status = "unauthorized"

\* register(email, password, name) / login(email, password)
AuthCall(endpoint, a, status) ==
    /\ IF RequestClears(status)
       THEN /\ token' = 0
            /\ user' = NoUser
       ELSE IF RequestReturns(status)
       THEN /\ token' = a
            /\ user' = AccountUser(a)
       ELSE UNCHANGED <<token, user>>
    /\ authCall' = [endpoint |-> endpoint, status |-> status, account |-> a]

AuthFrame ==
    /\ UNCHANGED <<snapshot, lastRecords, lastResult, shownPercentage>>
    /\ UNCHANGED <<timerVars, probeVars, lessonVars, speakVars, ftVars>>
    /\ UNCHANGED callVars
    /\ UNCHANGED dashVars

Register ==
    /\ \E a \in Accounts, status \in Statuses : AuthCall("register", a, status)
    /\ UNCHANGED scoreEvents
    /\ AuthFrame

Login ==
    /\ \E a \in Accounts, status \in Statuses : AuthCall("login", a, status)
    /\ UNCHANGED scoreEvents
    /\ AuthFrame

\* any other endpoint method that goes through request()
RequestCall ==
    /\ \E endpoint \in RequestEndpoints \ AuthEndpoints, status \in Statuses :
        /\ IF RequestClears(status)
           THEN /\ token' = 0
                /\ user' = NoUser
           ELSE UNCHANGED <<token, user>>
        /\ authCall' = [endpoint |-> endpoint, status |-> status,
                        account |-> 0]
    /\ UNCHANGED scoreEvents
    /\ AuthFrame

\* the speaking endpoints and downloadReport: fetch with the stored token,
\* the response status is not compared with 401
FetchCall ==
    /\ \E endpoint \in FetchEndpoints, status \in Statuses :
        authCall' = [endpoint |-> endpoint, status |-> status, account |-> 0]
    /\ UNCHANGED <<token, user, scoreEvents>>
    /\ AuthFrame

\* logout(): this.clearToken()
Logout ==
    /\ token' = 0
    /\ user' = NoUser
    /\ authCall' = [endpoint |-> "logout", status |-> "none", account |-> 0]
    /\ UNCHANGED scoreEvents
    /\ AuthFrame

\* showResults: const user = api.getUser(); if (user) { ...; setUser(user) },
\* here with a result that earned the XP of one question
ShowResultsStored ==
    /\ scoreEvents < MaxEvents
    /\ scoreEvents' = scoreEvents + 1
    /\ user' = CachedUserAfter(user,
                  [NoResult EXCEPT !.xp_earned = QuestionXp(1),
                                   !.new_streak = user.current_streak])
    /\ authCall' = [endpoint |-> "showResults", status |-> "none",
                    account |-> 0]
    /\ UNCHANGED token
    /\ AuthFrame

NextAuth ==
    \/ Register
    \/ Login
    \/ RequestCall
    \/ FetchCall
    \/ Logout
    \/ ShowResultsStored

SpecAuth == Init /\ [][NextAuth]_vars

\* C37: whenever an API client call receives an HTTP 401 response, the
\* stored token and the stored user are both cleared, so that the client is
\* unauthenticated afterwards, for every endpoint method of the client, the
\* speaking and report endpoints included.
C37_UnauthorizedClearsStorage ==
    authCall.status = "unauthorized" => token = 0 /\ ~user.present

\* the step settles a register or login call with this set of statuses
AuthSettles(statuses) ==
    /\ authCall'.endpoint \in AuthEndpoints
    /\ authCall'.status \in statuses

\* after logout the token and the user are absent, and from a state where
\* both are absent only a successful login or register stores them
AbsentAfterLogout ==
    /\ authCall'.endpoint = "logout" => token' = 0 /\ ~user'.present
    /\ (token = 0 /\ ~user.present /\ ~AuthSettles({"ok"})) =>
            (token' = 0 /\ ~user'.present)

\* C38 as stated: login and register store the token and the user only on
\* success: when the request fails, the previously stored token and user
\* are left unchanged, and after logout both are absent until a later login
\* or register succeeds.
C38_FailedLoginChangesNothing ==
    [][/\ AuthSettles(Statuses \ {"ok"}) => token' = token /\ user' = user
       /\ AbsentAfterLogout]_vars

\* C38 (amended): login and register store the token and the user only on
\* success.  A request that fails with a 401 response clears the stored
\* token and user; a request that fails in any other way (another error
\* response, a rejected fetch) leaves them unchanged; after logout both are
\* absent until a later login or register succeeds.
C38_StoredOnlyOnSuccess ==
    [][/\ AuthSettles({"error", "reject"}) =>
            token' = token /\ user' = user
       /\ AuthSettles({"unauthorized"}) => token' = 0 /\ ~user'.present
       /\ AuthSettles({"ok"}) =>
            /\ token' = authCall'.account
            /\ user' = AccountUser(authCall'.account)
       /\ AbsentAfterLogout]_vars

\* a login of another account has failed with an error response and the
\* token and user stored before are still there
C38_Witness ==
    /\ authCall.endpoint = "login"
    /\ authCall.status = "error"
    /\ token # 0
    /\ authCall.account # token
    /\ user = AccountUser(token)

(***************************************************************************)
(* SpecDashboard: the level progress of renderDashboard, drawn for the     *)
(* cefr_level and xp_total of the dashboard data.  The percentage is a     *)
(* JavaScript number; it is kept as the exact fraction num / den.          *)
(***************************************************************************)
\* data.cefr_level: a level, an absent field, or a string not in the table
DashboardLevels == LevelSet \cup {"unset", "Z9"}

\* data.xp_total, Undefined for an absent field
DashboardXp ==
    {Undefined, 0, 1, 250, 499, 500, 501, 1000, 1499, 1500, 2500, 3499, 3500,
     5000, 7000, 9000, 12000, 16000, 19999, 20000, 20001, 30000}

\* Math.min((xpInLevel / xpNeededForNext) * 100, 100)
ProgressPercent(xpInLevel, xpNeededForNext) ==
    IF xpInLevel >= xpNeededForNext THEN [num |-> 100, den |-> 1]
    ELSE [num |-> xpInLevel * 100, den |-> xpNeededForNext]

\* Math.max(levelInfo.max - xpTotal, 0)
XpRemaining(levelInfo, xpTotal) ==
    IF levelInfo.max - xpTotal > 0 THEN levelInfo.max - xpTotal ELSE 0

\* renderDashboard: the level progress block
LevelProgress(level, xp) ==
    LET currentLevel == IF level = "unset" THEN "A1" ELSE level
        xpTotal      == IF xp = Undefined \/ xp = 0 THEN 0 ELSE xp
        levelInfo    == IF currentLevel \in DOMAIN LevelThresholds
                        THEN LevelThresholds[currentLevel]
                        ELSE LevelThresholds["A1"]
    IN  [drawn      |-> TRUE,
         cefr_level |-> level,
         xp_total   |-> xp,
         percent    |-> ProgressPercent(xpTotal - levelInfo.min,
                                        levelInfo.max - levelInfo.min),
         xp_needed  |-> XpRemaining(levelInfo, xpTotal),
         next       |-> levelInfo.next]

\* renderDashboard(data)
RenderDashboard ==
    /\ \E level \in DashboardLevels, xp \in DashboardXp :
          dashboard' = LevelProgress(level, xp)
    /\ UNCHANGED <<timerVars, probeVars, lessonVars, scoreVars, speakVars,
                   ftVars>>
    /\ UNCHANGED callVars
    /\ UNCHANGED authVars

NextDashboard == RenderDashboard

SpecDashboard == Init /\ [][NextDashboard]_vars

\* the threshold table is ascending and contiguous
TableContiguous ==
    /\ \A l \in LevelSet : LevelThresholds[l].min < LevelThresholds[l].max
    /\ \A i \in 1..(Len(Levels) - 1) :
          /\ LevelThresholds[Levels[i]].max = LevelThresholds[Levels[i + 1]].min
          /\ LevelThresholds[Levels[i]].next = Levels[i + 1]

\* C39: for every CEFR level and every non-negative XP total the level
\* progress percentage of the dashboard lies in 0..100 and the XP remaining
\* to the next level is non-negative, also when the XP total is below the
\* lower threshold of the learner's level; the threshold table is ascending
\* and contiguous.
C39_LevelProgressInRange ==
    /\ TableContiguous
    /\ dashboard.drawn =>
          /\ 0 <= dashboard.percent.num
          /\ dashboard.percent.num <= 100 * dashboard.percent.den
          /\ dashboard.xp_needed >= 0

====
